---- MODULE Spec2Model ----
(***************************************************************************)
(* The IDE-integration bridge of aiterm (src-tauri/src/claude_code and     *)
(* src-tauri/src/commands/claude_code.rs): two transports (WebSocket and   *)
(* SSE + POST), one shared JSON-RPC dispatcher, the pending-call table and *)
(* the application-side commands that resolve calls and push               *)
(* notifications; and the bridge's life cycle: start_server, the discovery *)
(* files of lockfile.rs (lock descriptors and the shared settings          *)
(* document) and the exit of the application.                              *)
(***************************************************************************)
EXTENDS Integers, Sequences, FiniteSets, TLC

\* ------------------------------------------------------------------------
\* Bounds of the model
\* ------------------------------------------------------------------------
MaxSessions == 2
MaxCalls == 2
MaxPushes == 1
\* dispatches in the specification of the whole bridge (Spec)
MaxBridgeCalls == 1
\* candidate ports of start_server; "<port>.lock" are the lock files
MaxPorts == 2
\* discovery-file operations in the specification of lockfile.rs
MaxOps == 2

Sessions == 1 .. MaxSessions
Dispatches == 1 .. MaxCalls
CallIds == 1 .. MaxCalls
Ports == 1 .. MaxPorts

\* ------------------------------------------------------------------------
\* Option<T>: None is the empty tuple, Some(x) a one-element tuple
\* ------------------------------------------------------------------------
None == << >>
Some(x) == << x >>
IsSome(o) == Len(o) = 1
Unwrap(o) == o[1]
UnwrapOr(o, d) == IF IsSome(o) THEN o[1] ELSE d

\* ------------------------------------------------------------------------
\* Authentication header
\* ------------------------------------------------------------------------
expected_auth == "tok32"
\* what a client may put in x-claude-code-ide-authorization (None: no header)
AuthHeaders == { None, Some("tok32"), Some("wrong"), Some("") }
\* headers.get(..).and_then(to_str).unwrap_or("")
HeaderAuth(h) == UnwrapOr(h, "")
\* a check that lets a request without the header through
AuthorizedOrMissing(h) == h = None \/ HeaderAuth(h) = expected_auth

\* if auth != srv.expected_auth { return StatusCode::UNAUTHORIZED }
Authorized(h) == HeaderAuth(h) = expected_auth

\* ------------------------------------------------------------------------
\* JSON-RPC messages
\* ------------------------------------------------------------------------
Null == "null"
Ids == { "1", "2" }
Methods == { "initialize", "notifications/initialized", "tools/list",
             "tools/call", "foo/bar" }
\* params of a tools/call: absent, an object with a name, an object without
NamedParams == [ name |-> Some("getOpenEditors") ]
UnnamedParams == [ name |-> None ]
ParamsOf(m) ==
    IF m = "tools/call" THEN { None, Some(NamedParams), Some(UnnamedParams) }
    ELSE { None }
\* text that serde_json cannot decode as a JsonRpcRequest
Malformed == [ wf |-> FALSE, id |-> None, method |-> "", params |-> None ]
Requests ==
    UNION { [ wf : { TRUE }, id : { None } \cup { Some(i) : i \in Ids },
              method : { m }, params : ParamsOf(m) ] : m \in Methods }
Messages == { Malformed } \cup Requests
\* the messages clients send in the specification of the whole bridge
BridgeMessages ==
    { [ wf |-> TRUE, id |-> Some("1"), method |-> "initialize",
        params |-> None ],
      [ wf |-> TRUE, id |-> Some("2"), method |-> "tools/call",
        params |-> Some(NamedParams) ] }

\* results the application may hand to claude_code_respond
Values == { "empty_array", "true" }
\* serde_json::to_string(&result)
to_string(v) == IF v = "empty_array" THEN "[]" ELSE "true"

\* ------------------------------------------------------------------------
\* Processes, as libc::kill(pid, 0) sees them
\* ------------------------------------------------------------------------
\* a pid recorded in a lock file is a u64: q * 2^31 + r, with 0 <= r < 2^31
U64(q, r) == [ q |-> q, r |-> r ]
\* std::process::id() of this instance
SelfPid == 101
\* the processes that exist, and those of them that this user may signal
Running == { 1, 100, SelfPid }
SameUser == { 100, SelfPid }
\* pid as i32: the low 32 bits, bit 31 being the sign
as_i32(p) == IF p.q % 2 = 0 THEN p.r ELSE p.r - 2147483647 - 1
\* libc::kill(pid, 0): 0, or -1 with ESRCH or EPERM; pid 0 is the caller's
\* process group, -1 every process the caller may signal, -g the group g
kill(pid) ==
    IF pid > 0 THEN (IF pid \in SameUser THEN 0 ELSE -1)
    ELSE IF pid \in { 0, -1 } THEN 0
    ELSE IF (0 - pid) \in SameUser THEN 0 ELSE -1
\* the process whose id is the recorded number exists
IsRunning(p) == p.q = 0 /\ p.r \in Running
\* "pid" values found in lock files: a live process of this user, a live
\* process of another user, a dead one, and 2^32 + 100
RecordedPids == { U64(0, 100), U64(0, 1), U64(0, 300), U64(2, 100) }

\* ------------------------------------------------------------------------
\* Files: ~/.claude/ide/<port>.lock, ~/.claude.json and its temporary
\* ------------------------------------------------------------------------
Absent == [ t |-> "absent" ]
\* complete content that serde_json cannot parse
Garbage == [ t |-> "garbage" ]
\* what an interrupted fs::write leaves behind
Partial == [ t |-> "partial" ]
\* JSON text; fmt is "pretty" for the output of to_string_pretty
Text(fmt, val) == [ t |-> "json", fmt |-> fmt, val |-> val ]

\* the content of a lock file, as far as the bridge reads or writes it
Descriptor(pid, port, auth) ==
    [ pid |-> pid, transport |-> "ws", authToken |-> auth,
      serverPort |-> port ]
\* lock files left by other or earlier instances (pid None: no u64 "pid")
ForeignLocks ==
    { Garbage } \cup
    { Text("pretty", Descriptor(pid, 0, "theirs")) :
          pid \in { None } \cup { Some(p) : p \in RecordedPids } }
LockContents == { Absent } \cup ForeignLocks

MCP_SERVER_KEY == "aiterm"
ServerKeys == { MCP_SERVER_KEY, "other" }
\* an entry that names the first candidate port whatever was bound
ServerEntryOfFirstPort(port, auth) ==
    [ type |-> "sse", url |-> 1, auth |-> auth ]
\* the entry write_mcp_settings stores under mcpServers.aiterm
ServerEntry(port, auth) == [ type |-> "sse", url |-> port, auth |-> auth ]
\* entries found in the document: an earlier instance's, another server's
FoundEntry(k) ==
    IF k = MCP_SERVER_KEY THEN ServerEntry(0, "old")
    ELSE [ type |-> "stdio", url |-> 0, auth |-> "" ]
\* values under the key "mcpServers": null, a non-object, or an object
JsonNull == [ t |-> "null" ]
JsonArray == [ t |-> "array" ]
JsonObject(servers) == [ t |-> "object", servers |-> servers ]
McpValues ==
    { JsonNull, JsonArray } \cup
    { JsonObject([ k \in D |-> FoundEntry(k) ]) : D \in SUBSET ServerKeys }
\* a settings document: not an object, or an object with or without other
\* keys and with or without the key "mcpServers"
Document(other, mcp) == [ t |-> "object", other |-> other, mcpServers |-> mcp ]
EmptyDocument == Document(FALSE, None)
Documents ==
    { JsonArray } \cup
    { Document(o, mcp) : o \in BOOLEAN,
                         mcp \in { None } \cup { Some(v) : v \in McpValues } }
SettingsContents ==
    { Absent, Garbage } \cup { Text("compact", d) : d \in Documents }

VARIABLES
    start_pc,               \* position of the start_server task
    bound_listener,         \* start_server: None or Some(port)
    claude_code_port,       \* AppState: None or Some(port)
    claude_code_auth,       \* AppState: None or Some(token)
    lock_dir,               \* port -> content of ~/.claude/ide/<port>.lock
    settings,               \* content of ~/.claude.json
    settings_tmp,           \* content of ~/.claude.json.aiterm-tmp
    fs_op,                  \* the running write_lockfile / delete_lockfile
    fs_log,                 \* the discovery-file operations that returned
    fs_init,                \* the files as start_server found them
    other_op,               \* the settings operation a second instance of
                            \* the application runs on the same home
    host,                   \* the application: "running", "exited", "crashed"
    lock_pc,                \* task -> index of its next lock statement
    lock_owner,             \* lock -> the guards alive on it
    claude_code_pending,    \* AppState: callIds that hold a oneshot sender
    claude_code_connected,  \* AppState: the connection-state flag
    claude_code_notify_tx,  \* AppState: None or Some(session) (its sender)
    sse_sessions,           \* ServerState: registered SSE session ids
    kind,                   \* session -> "none" | "ws" | "sse"
    pc,                     \* session -> position of its connection task
    peer,                   \* session -> "up" | "gone" | "unread" (socket /
                            \* stream body)
    chan,                   \* session -> items in response_rx / sse_rx
    notify_chan,            \* session -> items in the SSE notify bridge
    wire,                   \* session -> frames/events written to the client
    dispatch,               \* handle_message invocations
    oneshot,                \* callId -> "empty" or the value sent
    tool_events,            \* "claude-code-tool" events emitted
    conn_events,            \* "claude-code-connection" events emitted, by the
                            \* session whose task emitted them (0: no session)
    last_emitted,           \* None or Some(connected) of the latest of them
    next_session,           \* sessions started so far
    next_dispatch,          \* handle_message invocations so far
    next_call,              \* callIds generated so far
    pushes,                 \* claude_code_notify_selection calls so far
    last_refused,              \* status of the last refused request (0: none)
    last_respond,           \* the last claude_code_respond and its return
    respond_ok,             \* callId -> values for which respond returned Ok
    push_log,               \* per push: where it was placed
    last_established        \* session whose channel was installed last

vars == << claude_code_pending, claude_code_connected, claude_code_notify_tx,
           sse_sessions, kind, pc, peer, chan, notify_chan, wire, dispatch,
           oneshot, tool_events, conn_events, last_emitted, next_session,
           next_dispatch,
           next_call, pushes, last_refused, last_respond, respond_ok, push_log,
           last_established, start_pc, bound_listener, claude_code_port,
           claude_code_auth, lock_dir, settings, settings_tmp, fs_op, fs_log,
           fs_init, other_op, host, lock_pc, lock_owner >>

event_vars == << conn_events, last_emitted >>
app_vars == << claude_code_pending, claude_code_connected,
               claude_code_notify_tx >>
transport_vars == << sse_sessions, kind, pc, peer, next_session,
                     last_established >>
queue_vars == << chan, notify_chan, wire >>
dispatch_vars == << dispatch, oneshot, tool_events, next_dispatch, next_call >>
app_side_vars == << pushes, last_respond, respond_ok, push_log >>
lock_vars == << lock_pc, lock_owner >>
file_vars == << lock_dir, settings, settings_tmp, fs_op, fs_log, fs_init,
               other_op >>
host_vars == << start_pc, bound_listener, claude_code_port, claude_code_auth,
                file_vars, host, lock_vars >>

\* ------------------------------------------------------------------------
\* The parking_lot locks of AppState and ServerState, and the statements
\* of each task that take them.  A guard that is a temporary of a
\* statement is dropped at the end of that statement; a guard bound with
\* `let` is dropped at the end of its block.
\* ------------------------------------------------------------------------
Locks == { "claude_code_pending", "sse_sessions", "claude_code_notify_tx",
           "claude_code_connected" }
Acquire(lock, mode, next) ==
    [ op |-> "acquire", lock |-> lock, mode |-> mode, next |-> next ]
Drop(lock, next) ==
    [ op |-> "drop", lock |-> lock, mode |-> "none", next |-> next ]
\* a suspension point: an .await on a completion, a timer, a frame or a
\* queue item
Await(next) ==
    [ op |-> "await", lock |-> "none", mode |-> "none", next |-> next ]

\* handle_message's tools/call arm with the guard of the insert bound to a
\* variable that lives to the end of the arm
handle_message_locks_guard_kept(at, back) ==
    << Acquire("claude_code_pending", "write", { at + 1 }),
       Await({ at + 2 }),
       Drop("claude_code_pending", { at + 3, back }),
       Acquire("claude_code_pending", "write", { at + 4 }),
       Drop("claude_code_pending", { back }) >>
\* handle_message, tools/call arm: insert (lines 361-364), the wait for the
\* completion or the timeout (375), remove (387, 396) unless the
\* completion arrived, then back to the caller
handle_message_locks(at, back) ==
    << Acquire("claude_code_pending", "write", { at + 1 }),
       Drop("claude_code_pending", { at + 2 }),
       Await({ at + 3, back }),
       Acquire("claude_code_pending", "write", { at + 4 }),
       Drop("claude_code_pending", { back }) >>
\* set_connected, lines 126-132, then on to `next`
set_connected_locks(at, next) ==
    << Acquire("claude_code_connected", "write", { at + 1 }),
       Drop("claude_code_connected", { next }) >>
\* handle_ws_connection, lines 155-206: announce and install the target,
\* the select! loop (a Text frame enters handle_message), the teardown
handle_ws_connection_locks ==
    set_connected_locks(1, 3)
    \o << Acquire("claude_code_notify_tx", "mutex", { 4 }),
          Drop("claude_code_notify_tx", { 5 }),
          Await({ 5, 6, 11 }) >>
    \o handle_message_locks(6, 5)
    \o set_connected_locks(11, 13)
    \o << Acquire("claude_code_notify_tx", "mutex", { 14 }),
          Drop("claude_code_notify_tx", { 15 }) >>
\* sse_get_handler, lines 224-250: register, install the target, announce,
\* then the response stream waits on sse_rx
sse_get_handler_locks ==
    << Acquire("sse_sessions", "write", { 2 }),
       Drop("sse_sessions", { 3 }),
       Acquire("claude_code_notify_tx", "mutex", { 4 }),
       Drop("claude_code_notify_tx", { 5 }) >>
    \o set_connected_locks(5, 7)
    \o << Await({ 7, 8 }) >>
\* the task spawned at lines 253-275: sleep, look the session up, and after
\* the loop remove it, announce and clear the target
sse_watchdog_locks ==
    << Await({ 2 }),
       Acquire("sse_sessions", "read", { 3 }),
       Drop("sse_sessions", { 1, 4 }),
       Acquire("sse_sessions", "write", { 5 }),
       Drop("sse_sessions", { 6 }) >>
    \o set_connected_locks(6, 8)
    \o << Acquire("claude_code_notify_tx", "mutex", { 9 }),
          Drop("claude_code_notify_tx", { 10 }) >>
\* sse_message_handler, lines 307-313: look the session up (404 if it is
\* not there), then handle_message; the handler serves request after
\* request
sse_message_handler_locks ==
    << Acquire("sse_sessions", "read", { 2 }),
       Drop("sse_sessions", { 1, 3 }) >>
    \o handle_message_locks(3, 1)
\* claude_code_respond, commands/claude_code.rs lines 14-20: the guard is
\* `pending` and lives to the end of the function, which does not await
claude_code_respond_locks ==
    << Acquire("claude_code_pending", "write", { 2 }),
       Drop("claude_code_pending", { 1 }) >>
\* claude_code_notify_selection, commands/claude_code.rs lines 29-36
claude_code_notify_selection_locks ==
    << Acquire("claude_code_notify_tx", "mutex", { 2 }),
       Drop("claude_code_notify_tx", { 1 }) >>

LockTasks == { "ws", "sse_get", "watchdog", "post", "respond", "push" }
LockProgram(t) ==
    CASE t = "ws" -> handle_ws_connection_locks
      [] t = "sse_get" -> sse_get_handler_locks
      [] t = "watchdog" -> sse_watchdog_locks
      [] t = "post" -> sse_message_handler_locks
      [] t = "respond" -> claude_code_respond_locks
      [] t = "push" -> claude_code_notify_selection_locks
\* the task has statements left
LockRunning(t) == lock_pc[t] <= Len(LockProgram(t))
LockStatement(t) == LockProgram(t)[lock_pc[t]]
Guard(t, mode) == [ task |-> t, mode |-> mode ]
\* parking_lot: a mutex or a write guard excludes every other guard, read
\* guards exclude only those
LockAvailable(lock, mode) ==
    IF mode = "read"
    THEN \A g \in lock_owner[lock] : g.mode = "read"
    ELSE lock_owner[lock] = {}
\* the locks on which the task has a live guard
LocksHeld(t) == { l \in Locks : \E g \in lock_owner[l] : g.task = t }
\* no task has started and no guard is alive
LocksFree ==
    /\ lock_pc = [ t \in LockTasks |-> 1 ]
    /\ lock_owner = [ l \in Locks |-> {} ]

\* no discovery-file operation is running
Idle == [ name |-> "none", pc |-> "idle", port |-> 0, new |-> Absent,
          failed |-> FALSE, pre |-> Absent, fd |-> "none" ]

\* the files of a home directory
Files(dir, doc, tmp) == [ lock_dir |-> dir, settings |-> doc, tmp |-> tmp ]

\* the document write_mcp_settings(port, auth) leaves in an empty home
RegisteredDocument(port, auth) ==
    Document(FALSE,
             Some(JsonObject([ k \in { MCP_SERVER_KEY } |->
                                 ServerEntry(port, auth) ])))

\* the state start_server leaves behind when it serves on port 1 and found
\* an empty home directory
ServingHost ==
    /\ start_pc = "serving"
    /\ bound_listener = Some(1)
    /\ claude_code_port = Some(1)
    /\ claude_code_auth = Some(expected_auth)
    /\ lock_dir = [ p \in Ports |->
                      IF p = 1
                      THEN Text("pretty",
                                Descriptor(Some(U64(0, SelfPid)), 1,
                                           expected_auth))
                      ELSE Absent ]
    /\ settings = Text("pretty", RegisteredDocument(1, expected_auth))
    /\ settings_tmp = Absent
    /\ fs_op = Idle
    /\ fs_log = << >>
    /\ fs_init = Files([ p \in Ports |-> Absent ], Absent, Absent)
    /\ other_op = Idle
    /\ LocksFree
    /\ host = "running"

NoDispatch == [ sess |-> 0, msg |-> Malformed, pc |-> "unused", call |-> 0,
                replies |-> << >> ]

\* AppState::default() and a ServerState without sessions
InitBridge ==
    /\ claude_code_pending = {}
    /\ claude_code_connected = FALSE
    /\ claude_code_notify_tx = None
    /\ sse_sessions = {}
    /\ kind = [ s \in Sessions |-> "none" ]
    /\ pc = [ s \in Sessions |-> "none" ]
    /\ peer = [ s \in Sessions |-> "up" ]
    /\ chan = [ s \in Sessions |-> << >> ]
    /\ notify_chan = [ s \in Sessions |-> << >> ]
    /\ wire = [ s \in Sessions |-> << >> ]
    /\ dispatch = [ r \in Dispatches |-> NoDispatch ]
    /\ oneshot = [ c \in CallIds |-> "empty" ]
    /\ tool_events = {}
    /\ conn_events = [ s \in 0 .. MaxSessions |-> << >> ]
    /\ last_emitted = None
    /\ next_session = 0
    /\ next_dispatch = 0
    /\ next_call = 0
    /\ pushes = 0
    /\ last_refused = 0
    /\ last_respond = [ request_id |-> 0, ret |-> "none" ]
    /\ respond_ok = [ c \in CallIds |-> << >> ]
    /\ push_log = << >>
    /\ last_established = 0

Init == InitBridge /\ ServingHost

\* ------------------------------------------------------------------------
\* Channels
\* ------------------------------------------------------------------------
\* the receiver of session s's outbound channel still exists: response_rx
\* lives until handle_ws_connection returns, sse_rx until the body is dropped
RxAlive(s) ==
    IF kind[s] = "ws" THEN pc[s] # "done" ELSE peer[s] = "up"

\* UnboundedSender::send: queues the item unless the receiver is gone
Send(q, s, item) ==
    IF RxAlive(s) THEN [ q EXCEPT ![s] = Append(@, item) ] ELSE q

\* ------------------------------------------------------------------------
\* set_connected, split at its two effects: the flag write and the emit
\* ------------------------------------------------------------------------
\* the position that follows set_connected in the task of session s
AfterSetConnected(s) ==
    IF pc[s] = "emit_close" THEN "uninstall"
    ELSE IF kind[s] = "ws" THEN "install" ELSE "streaming"

set_connected_write(s) ==
    /\ pc[s] \in { "open", "close" }
    /\ claude_code_connected' = (pc[s] = "open")
    /\ pc' = [ pc EXCEPT ![s] = IF pc[s] = "open" THEN "emit_open"
                                  ELSE "emit_close" ]
    /\ UNCHANGED << claude_code_pending, claude_code_notify_tx, sse_sessions,
                    kind, peer, next_session, last_established, event_vars,
                    last_refused,
                    host_vars >>
    /\ UNCHANGED << queue_vars, dispatch_vars, app_side_vars >>

\* an emit that announces connections only
EmitConnectedOnly(s, connected) ==
    IF connected THEN [ conn_events EXCEPT ![s] = Append(@, connected) ]
    ELSE conn_events

\* app_handle.emit("claude-code-connection", { "connected": connected })
EmitConnection(s, connected) ==
    [ conn_events EXCEPT ![s] = Append(@, connected) ]

set_connected_emit(s) ==
    /\ pc[s] \in { "emit_open", "emit_close" }
    /\ conn_events' = EmitConnection(s, pc[s] = "emit_open")
    /\ last_emitted' = IF conn_events' = conn_events THEN last_emitted
                       ELSE Some(pc[s] = "emit_open")
    /\ pc' = [ pc EXCEPT ![s] = AfterSetConnected(s) ]
    /\ UNCHANGED << app_vars, sse_sessions, kind, peer, next_session,
                    last_established, last_refused,
                    host_vars >>
    /\ UNCHANGED << queue_vars, dispatch_vars, app_side_vars >>

\* ------------------------------------------------------------------------
\* Session establishment and teardown
\* ------------------------------------------------------------------------
\* the 401 answer of the three endpoints: nothing but the answer
Unauthorized ==
    /\ last_refused' = 401
    /\ UNCHANGED << app_vars, transport_vars, queue_vars, dispatch_vars,
                    app_side_vars, event_vars, host_vars >>

ws_upgrade_handler(h) ==
    IF ~Authorized(h) THEN Unauthorized
    ELSE
        /\ next_session < MaxSessions
        /\ next_session' = next_session + 1
        /\ kind' = [ kind EXCEPT ![next_session'] = "ws" ]
        /\ pc' = [ pc EXCEPT ![next_session'] = "open" ]
        /\ UNCHANGED << app_vars, sse_sessions, peer, last_established,
                        queue_vars, dispatch_vars, app_side_vars,
                        event_vars, last_refused,
                    host_vars >>

sse_get_handler(h) ==
    IF ~Authorized(h) THEN Unauthorized
    ELSE
        /\ next_session < MaxSessions
        /\ next_session' = next_session + 1
        /\ kind' = [ kind EXCEPT ![next_session'] = "sse" ]
        /\ sse_sessions' = sse_sessions \cup { next_session' }
        /\ pc' = [ pc EXCEPT ![next_session'] = "install" ]
        /\ UNCHANGED << app_vars, peer, last_established, queue_vars,
                        dispatch_vars, app_side_vars, event_vars,
                        last_refused,
                    host_vars >>

\* *claude_code_notify_tx.lock() = Some(tx) of a starting session
install_notify_tx(s) ==
    /\ pc[s] = "install"
    /\ claude_code_notify_tx' = Some(s)
    /\ last_established' = s
    /\ pc' = [ pc EXCEPT ![s] = IF kind[s] = "ws" THEN "select" ELSE "open" ]
    /\ UNCHANGED << claude_code_pending, claude_code_connected, sse_sessions,
                    kind, peer, next_session, event_vars, last_refused,
                    host_vars >>
    /\ UNCHANGED << queue_vars, dispatch_vars, app_side_vars >>

\* *claude_code_notify_tx.lock() = None at the end of a session
clear_notify_tx(s) ==
    /\ pc[s] = "uninstall"
    /\ claude_code_notify_tx' = None
    /\ pc' = [ pc EXCEPT ![s] = "done" ]
    \* the WS receiver is dropped with the task; queued items go with it
    /\ chan' = [ chan EXCEPT ![s] = << >> ]
    /\ UNCHANGED << claude_code_pending, claude_code_connected, sse_sessions,
                    kind, peer, next_session, last_established, event_vars,
                    last_refused, notify_chan, wire, host_vars >>
    /\ UNCHANGED << dispatch_vars, app_side_vars >>

\* ------------------------------------------------------------------------
\* Protocol codec (protocol.rs)
\* ------------------------------------------------------------------------
JsonRpcResponse_success(id, result) ==
    [ jsonrpc |-> "2.0", id |-> id, result |-> Some(result), error |-> None ]

\* an error constructor that also fills the result
JsonRpcResponse_errorWithResult(id, code, message) ==
    [ jsonrpc |-> "2.0", id |-> id, result |-> Some(Null),
      error |-> Some([ code |-> code, message |-> message ]) ]

JsonRpcResponse_error(id, code, message) ==
    [ jsonrpc |-> "2.0", id |-> id, result |-> None,
      error |-> Some([ code |-> code, message |-> message ]) ]

initialize_response ==
    [ protocolVersion |-> "2024-11-05", capabilities |-> "tools" ]

tool_list_response ==
    [ tools |-> << "getOpenEditors", "getWorkspaceFolders", "getDiagnostics",
                   "checkDocumentDirty", "saveDocument", "getCurrentSelection",
                   "getLatestSelection", "openFile", "openDiff",
                   "closeAllDiffTabs" >> ]

\* the result of a resolved tools/call
ToolContent(result) ==
    [ content |-> << [ type |-> "text", text |-> to_string(result) ] >> ]

\* what travels on a session's channel and on the wire
ResponseItem(resp) == [ t |-> "response", body |-> resp ]

\* ------------------------------------------------------------------------
\* handle_message (server.rs), up to its suspension point
\* ------------------------------------------------------------------------
\* let id = req.id.clone().unwrap_or(Value::Null)
ResponseId(msg) == UnwrapOr(msg.id, Null)

\* the tools/call arm with params present: the one that awaits
Suspends(msg) ==
    msg.wf /\ msg.method = "tools/call" /\ IsSome(msg.params)

\* a dispatcher that drops every method it does not know
UnknownMethodDropped(msg) == None

\* the arm _ => of the match: an error if the request has an id
UnknownMethod(msg) ==
    IF IsSome(msg.id)
    THEN Some(JsonRpcResponse_error(ResponseId(msg), -32601,
                                    "Method not found"))
    ELSE None

\* match req.method.as_str(): response_json of every arm that does not await
MethodResponse(msg) ==
    CASE msg.method = "initialize" ->
             Some(JsonRpcResponse_success(ResponseId(msg),
                                          initialize_response))
      [] msg.method = "notifications/initialized" -> None
      [] msg.method = "tools/list" ->
             Some(JsonRpcResponse_success(ResponseId(msg),
                                          tool_list_response))
      [] msg.method = "tools/call" ->
             Some(JsonRpcResponse_error(ResponseId(msg), -32602,
                                        "Missing params"))
      [] OTHER -> UnknownMethod(msg)

\* a dispatcher that answers undecodable text with a parse error
ParseErrorResponse(msg) ==
    IF ~msg.wf
    THEN Some(JsonRpcResponse_error(Null, -32700, "Parse error"))
    ELSE MethodResponse(msg)

\* Err(e) of serde_json::from_str => return; otherwise the arm's response
ImmediateResponse(msg) ==
    IF ~msg.wf THEN None ELSE MethodResponse(msg)

\* a dispatcher that answers on the current notification target instead of
\* the channel it was handed
SendResponseToNotifyTarget(s, response_json) ==
    IF IsSome(response_json) /\ IsSome(claude_code_notify_tx)
    THEN Send(chan, Unwrap(claude_code_notify_tx),
              ResponseItem(Unwrap(response_json)))
    ELSE chan

\* if let Some(json) = response_json { let _ = response_tx.send(json); }
SendResponse(s, response_json) ==
    IF IsSome(response_json)
    THEN Send(chan, s, ResponseItem(Unwrap(response_json)))
    ELSE chan

\* a dispatcher that emits the event without having registered the call
InsertNothing(request_id) == claude_code_pending

\* state.claude_code_pending.write().insert(request_id.clone(), tx)
InsertPending(request_id) == claude_code_pending \cup { request_id }

\* entry of handle_message for session s: either runs to its end, or inserts
\* the oneshot sender under a fresh request_id and goes on to emit
handle_message(s, msg) ==
    /\ next_dispatch < MaxCalls
    /\ next_dispatch' = next_dispatch + 1
    /\ IF Suspends(msg)
       THEN /\ next_call' = next_call + 1
            /\ claude_code_pending' = InsertPending(next_call')
            /\ dispatch' = [ dispatch EXCEPT ![next_dispatch'] =
                   [ sess |-> s, msg |-> msg, pc |-> "inserted",
                     call |-> next_call', replies |-> << >> ] ]
            /\ chan' = chan
       ELSE /\ next_call' = next_call
            /\ claude_code_pending' = claude_code_pending
            /\ dispatch' = [ dispatch EXCEPT ![next_dispatch'] =
                   [ sess |-> s, msg |-> msg, pc |-> "done", call |-> 0,
                     replies |-> ImmediateResponse(msg) ] ]
            /\ chan' = SendResponse(s, ImmediateResponse(msg))
    /\ UNCHANGED << oneshot, tool_events >>

\* the WS loop runs handle_message inline: it is back at select! only once
\* handle_message has returned
ReturnTo(s) ==
    IF kind[s] = "ws" THEN [ pc EXCEPT ![s] = "select" ] ELSE pc

ToolEvent(r) ==
    [ request_id |-> dispatch[r].call,
      tool |-> UnwrapOr(Unwrap(dispatch[r].msg.params).name, ""),
      arguments |-> "{}" ]

\* app_handle.emit("claude-code-tool", ..), then the await begins
handle_message_emit(r) ==
    /\ dispatch[r].pc = "inserted"
    /\ tool_events' = tool_events \cup { ToolEvent(r) }
    /\ dispatch' = [ dispatch EXCEPT ![r].pc = "awaiting" ]
    /\ UNCHANGED << app_vars, transport_vars, queue_vars, oneshot,
                    next_dispatch, next_call, app_side_vars, event_vars,
                    last_refused,
                    host_vars >>

\* RESPONSE_TIMEOUT passes for the await of dispatch r
response_timeout_passes(r) ==
    /\ dispatch[r].pc = "awaiting"
    /\ dispatch' = [ dispatch EXCEPT ![r].pc = "overdue" ]
    /\ UNCHANGED << app_vars, transport_vars, queue_vars, oneshot,
                    tool_events, next_dispatch, next_call, app_side_vars,
                    event_vars, last_refused,
                    host_vars >>

\* the oneshot sender of call c exists only as the entry of the table
SenderAlive(c) == c \in claude_code_pending

\* tokio::time::timeout(RESPONSE_TIMEOUT, rx): the receiver is polled first
AwaitOutcome(r) ==
    LET c == dispatch[r].call IN
    IF oneshot[c] # "empty" THEN "Ok_Ok"
    ELSE IF ~SenderAlive(c) THEN "Ok_Err"
    ELSE IF dispatch[r].pc = "overdue" THEN "Err"
    ELSE "Pending"

\* an arm that replies without removing the entry
KeepPending(c) == claude_code_pending

\* state.claude_code_pending.write().remove(&request_id)
RemovePending(c) == claude_code_pending \ { c }

FinishDispatch(r, response) ==
    /\ dispatch' = [ dispatch EXCEPT ![r].pc = "done",
                                     ![r].replies = @ \o response ]
    /\ chan' = SendResponse(dispatch[r].sess, response)
    /\ pc' = ReturnTo(dispatch[r].sess)

\* the arms Ok(Ok(result)) and Ok(Err(_)) of the await
handle_message_resume(r) ==
    /\ dispatch[r].pc \in { "awaiting", "overdue" }
    /\ AwaitOutcome(r) \in { "Ok_Ok", "Ok_Err" }
    /\ IF AwaitOutcome(r) = "Ok_Ok"
       THEN /\ FinishDispatch(r, Some(JsonRpcResponse_success(
                    ResponseId(dispatch[r].msg),
                    ToolContent(oneshot[dispatch[r].call]))))
            /\ UNCHANGED claude_code_pending
       ELSE /\ FinishDispatch(r, Some(JsonRpcResponse_error(
                    ResponseId(dispatch[r].msg), -32603,
                    "Tool handler disconnected")))
            /\ claude_code_pending' = RemovePending(dispatch[r].call)
    /\ UNCHANGED << claude_code_connected, claude_code_notify_tx,
                    sse_sessions, kind, peer, next_session, last_established,
                    notify_chan, wire, oneshot, tool_events, next_dispatch,
                    next_call, app_side_vars, event_vars, last_refused,
                    host_vars >>

\* the await returns Err(Elapsed): the receiver is dropped with the future
handle_message_elapsed(r) ==
    /\ dispatch[r].pc = "overdue"
    /\ AwaitOutcome(r) = "Err"
    /\ dispatch' = [ dispatch EXCEPT ![r].pc = "elapsed" ]
    /\ UNCHANGED << app_vars, transport_vars, queue_vars, oneshot,
                    tool_events, next_dispatch, next_call, app_side_vars,
                    event_vars, last_refused,
                    host_vars >>

\* the arm Err(_): remove the entry, reply "Tool response timeout"
handle_message_timeout(r) ==
    /\ dispatch[r].pc = "elapsed"
    /\ claude_code_pending' = RemovePending(dispatch[r].call)
    /\ FinishDispatch(r, Some(JsonRpcResponse_error(
           ResponseId(dispatch[r].msg), -32603, "Tool response timeout")))
    /\ UNCHANGED << claude_code_connected, claude_code_notify_tx,
                    sse_sessions, kind, peer, next_session, last_established,
                    notify_chan, wire, oneshot, tool_events, next_dispatch,
                    next_call, app_side_vars, event_vars, last_refused,
                    host_vars >>

\* ------------------------------------------------------------------------
\* Transport A: the select! loop of handle_ws_connection
\* ------------------------------------------------------------------------
\* ws_read.next() yields a frame: the client is there, or it went away and
\* frames it had sent are still unread
Readable(s) == peer[s] \in { "up", "unread" }

\* Some(Ok(WsMessage::Text(text))) => handle_message(..).await
ws_read_text(s, msg) ==
    /\ kind[s] = "ws" /\ pc[s] = "select" /\ Readable(s)
    /\ handle_message(s, msg)
    /\ pc' = IF Suspends(msg) THEN [ pc EXCEPT ![s] = "handling" ] ELSE pc
    /\ UNCHANGED << claude_code_connected, claude_code_notify_tx,
                    sse_sessions, kind, peer, next_session, last_established,
                    notify_chan, wire, app_side_vars, event_vars, last_refused,
                    host_vars >>

\* Some(Ok(WsMessage::Ping(data))) => the arm that answers with a Pong
ws_read_ping(s) ==
    /\ kind[s] = "ws" /\ pc[s] = "select" /\ Readable(s)
    /\ pc' = [ pc EXCEPT ![s] = "pong" ]
    /\ UNCHANGED << app_vars, sse_sessions, kind, peer, next_session,
                    last_established, queue_vars, dispatch_vars,
                    app_side_vars, event_vars, last_refused,
                    host_vars >>

\* let _ = ws_write.send(WsMessage::Pong(data)).await: back to select!,
\* whatever the write returned
PongIgnored(s) == "select"

ws_pong(s) ==
    /\ kind[s] = "ws" /\ pc[s] = "pong"
    /\ pc' = [ pc EXCEPT ![s] = PongIgnored(s) ]
    /\ UNCHANGED << app_vars, sse_sessions, kind, peer, next_session,
                    last_established, queue_vars, dispatch_vars,
                    app_side_vars, event_vars, last_refused,
                    host_vars >>

\* Some(Ok(WsMessage::Close(_))) | None | Some(Err(e)) => break
ws_read_close(s) ==
    /\ kind[s] = "ws" /\ pc[s] = "select" /\ peer[s] # "up"
    /\ pc' = [ pc EXCEPT ![s] = "close" ]
    /\ UNCHANGED << app_vars, sse_sessions, kind, peer, next_session,
                    last_established, queue_vars, dispatch_vars,
                    app_side_vars, event_vars, last_refused,
                    host_vars >>

\* ping_interval.tick(): a failed send of the Ping breaks the loop
ws_ping_tick(s) ==
    /\ kind[s] = "ws" /\ pc[s] = "select"
    /\ pc' = IF peer[s] = "up" THEN pc ELSE [ pc EXCEPT ![s] = "close" ]
    /\ UNCHANGED << app_vars, sse_sessions, kind, peer, next_session,
                    last_established, queue_vars, dispatch_vars,
                    app_side_vars, event_vars, last_refused,
                    host_vars >>

\* response_rx.recv(): write the item as a Text frame, break if that fails
ws_relay(s) ==
    /\ kind[s] = "ws" /\ pc[s] = "select"
    /\ chan[s] # << >>
    /\ chan' = [ chan EXCEPT ![s] = Tail(@) ]
    /\ IF peer[s] = "up"
       THEN /\ wire' = [ wire EXCEPT ![s] = Append(@, Head(chan[s])) ]
            /\ pc' = pc
       ELSE /\ wire' = wire
            /\ pc' = [ pc EXCEPT ![s] = "close" ]
    /\ UNCHANGED << app_vars, sse_sessions, kind, peer, next_session,
                    last_established, notify_chan, dispatch_vars,
                    app_side_vars, event_vars, last_refused,
                    host_vars >>

\* the client closes the socket or becomes unreachable; the loop can notice
\* it only at its next select!
ws_peer_gone(s) ==
    /\ kind[s] = "ws" /\ pc[s] = "select"
    /\ peer[s] = "up"
    /\ peer' = [ peer EXCEPT ![s] = "gone" ]
    /\ UNCHANGED << app_vars, sse_sessions, kind, pc, next_session,
                    last_established, queue_vars, dispatch_vars,
                    app_side_vars, event_vars, last_refused,
                    host_vars >>

\* the client goes away while frames it sent are still unread: reads go on
\* yielding them, writes fail
ws_peer_left(s) ==
    /\ kind[s] = "ws" /\ pc[s] = "select"
    /\ peer[s] = "up"
    /\ peer' = [ peer EXCEPT ![s] = "unread" ]
    /\ UNCHANGED << app_vars, sse_sessions, kind, pc, next_session,
                    last_established, queue_vars, dispatch_vars,
                    app_side_vars, event_vars, last_refused,
                    host_vars >>

\* ------------------------------------------------------------------------
\* Transport B: the event stream, the notify bridge, the watchdog, the POST
\* ------------------------------------------------------------------------
\* a bootstrap event that names the session opened last
EndpointEventOfLatest(s) == [ t |-> "endpoint", body |-> next_session ]

\* "event: endpoint\ndata: /message?sessionId={session_id}\n\n"
EndpointEvent(s) == [ t |-> "endpoint", body |-> s ]

\* the body stream: once(endpoint_event) chained with unfold(sse_rx)
sse_stream_next(s) ==
    /\ kind[s] = "sse" /\ pc[s] = "streaming" /\ peer[s] = "up"
    /\ IF wire[s] = << >>
       THEN /\ wire' = [ wire EXCEPT ![s] = << EndpointEvent(s) >> ]
            /\ chan' = chan
       ELSE /\ chan[s] # << >>
            /\ wire' = [ wire EXCEPT ![s] = Append(@, Head(chan[s])) ]
            /\ chan' = [ chan EXCEPT ![s] = Tail(@) ]
    /\ UNCHANGED << app_vars, transport_vars, notify_chan, dispatch_vars,
                    app_side_vars, event_vars, last_refused,
                    host_vars >>

\* the client drops the stream: the body, and sse_rx with it, is dropped
sse_stream_dropped(s) ==
    /\ kind[s] = "sse" /\ pc[s] = "streaming" /\ peer[s] = "up"
    /\ peer' = [ peer EXCEPT ![s] = "gone" ]
    /\ chan' = [ chan EXCEPT ![s] = << >> ]
    /\ UNCHANGED << app_vars, sse_sessions, kind, pc, next_session,
                    last_established, notify_chan, wire, dispatch_vars,
                    app_side_vars, event_vars, last_refused,
                    host_vars >>

\* while let Some(json) = notify_rx.recv().await { sse_tx_for_notify.send }
sse_notify_bridge(s) ==
    /\ kind[s] = "sse"
    /\ notify_chan[s] # << >>
    /\ notify_chan' = [ notify_chan EXCEPT ![s] = Tail(@) ]
    /\ chan' = Send(chan, s, Head(notify_chan[s]))
    /\ UNCHANGED << app_vars, transport_vars, wire, dispatch_vars,
                    app_side_vars, event_vars, last_refused,
                    host_vars >>

\* a watchdog that takes every session it polls for abandoned
AlwaysClosed(s) == TRUE

\* tx.is_closed(): the receiver of the session's outbound queue was dropped
is_closed(s) == ~RxAlive(s)

\* the watchdog finds tx.is_closed() and removes the session
sse_watchdog(s) ==
    /\ kind[s] = "sse" /\ pc[s] = "streaming"
    /\ s \in sse_sessions
    /\ is_closed(s)
    /\ sse_sessions' = sse_sessions \ { s }
    /\ pc' = [ pc EXCEPT ![s] = "close" ]
    /\ UNCHANGED << app_vars, kind, peer, next_session, last_established,
                    queue_vars, dispatch_vars, app_side_vars, event_vars,
                    last_refused,
                    host_vars >>

sse_message_handler(h, session_id, body) ==
    IF ~Authorized(h) THEN Unauthorized
    ELSE IF session_id \notin sse_sessions
    THEN /\ last_refused' = 404
         /\ UNCHANGED << app_vars, transport_vars, queue_vars, dispatch_vars,
                         app_side_vars, event_vars, host_vars >>
    ELSE /\ handle_message(session_id, body)
         /\ UNCHANGED << claude_code_connected, claude_code_notify_tx,
                         transport_vars, notify_chan, wire, app_side_vars,
                         event_vars, last_refused,
                    host_vars >>

\* the client closes the connection of its POST while the handler is parked
\* in handle_message(..).await (line 312): the server drops the handler
\* future, and with it the timeout, the oneshot receiver and the code of
\* the arms that would have run after the await
sse_message_handler_dropped(r) ==
    /\ dispatch[r].pc \in { "awaiting", "overdue" }
    /\ kind[dispatch[r].sess] = "sse"
    /\ dispatch' = [ dispatch EXCEPT ![r].pc = "dropped" ]
    /\ UNCHANGED << app_vars, transport_vars, queue_vars, oneshot,
                    tool_events, next_dispatch, next_call, app_side_vars,
                    event_vars, last_refused, host_vars >>

\* ------------------------------------------------------------------------
\* Commands of the application (commands/claude_code.rs)
\* ------------------------------------------------------------------------
\* the oneshot receiver of call c is still held by an awaiting dispatch
ReceiverAlive(c) ==
    \E r \in Dispatches :
        /\ dispatch[r].call = c
        /\ dispatch[r].pc \in { "inserted", "awaiting", "overdue" }

\* a table that is read but not emptied by a resolve
PeekSender(request_id) == claude_code_pending

\* pending.remove(&request_id): the entry leaves the table
TakeSender(request_id) == claude_code_pending \ { request_id }

claude_code_respond(request_id, result) ==
    /\ IF request_id \in claude_code_pending
       THEN /\ claude_code_pending' = TakeSender(request_id)
            /\ oneshot' = IF ReceiverAlive(request_id)
                          THEN [ oneshot EXCEPT ![request_id] = result ]
                          ELSE oneshot
            /\ respond_ok' = [ respond_ok EXCEPT
                                 ![request_id] = Append(@, result) ]
            /\ last_respond' = [ request_id |-> request_id, ret |-> "Ok" ]
       ELSE /\ last_respond' = [ request_id |-> request_id, ret |-> "Err" ]
            /\ UNCHANGED << claude_code_pending, oneshot, respond_ok >>
    /\ UNCHANGED << claude_code_connected, claude_code_notify_tx,
                    transport_vars, queue_vars, dispatch, tool_events,
                    next_dispatch, next_call, pushes, push_log, event_vars,
                    last_refused,
                    host_vars >>

PushItem(payload) == [ t |-> "push", body |-> payload ]

\* a session is open from the moment its channel is installed until its
\* teardown begins
SessionOpen(s) ==
    IF kind[s] = "ws" THEN pc[s] \in { "select", "handling", "pong" }
    ELSE /\ kind[s] = "sse"
         /\ pc[s] \in { "open", "emit_open", "streaming" }
         /\ peer[s] = "up"

\* a push that falls back on some open session when no target is set
PushTargetAnyOpen ==
    IF IsSome(claude_code_notify_tx) THEN claude_code_notify_tx
    ELSE IF \E s \in Sessions : RxAlive(s) /\ kind[s] # "none"
    THEN Some(CHOOSE s \in Sessions : RxAlive(s) /\ kind[s] # "none")
    ELSE None
\* guard.as_ref(): the sender in claude_code_notify_tx, if any
PushTarget == claude_code_notify_tx
\* what the command returns: Ok(()) without a target, else the result of
\* tx.send, an error when the receiver is gone (the notify bridge of an SSE
\* session keeps its receiver as long as the sender is installed)
PushReturn ==
    IF IsSome(PushTarget) /\ kind[Unwrap(PushTarget)] = "ws"
       /\ ~RxAlive(Unwrap(PushTarget))
    THEN "Err" ELSE "Ok"

claude_code_notify_selection(payload) ==
    /\ pushes < MaxPushes
    /\ payload = pushes + 1
    /\ pushes' = payload
    /\ IF IsSome(PushTarget)
       THEN LET s == Unwrap(PushTarget) IN
            IF kind[s] = "ws"
            THEN /\ chan' = Send(chan, s, PushItem(payload))
                 /\ notify_chan' = notify_chan
            ELSE /\ notify_chan' = [ notify_chan EXCEPT
                                       ![s] = Append(@, PushItem(payload)) ]
                 /\ chan' = chan
       ELSE UNCHANGED << chan, notify_chan >>
    /\ push_log' = Append(push_log,
           [ payload |-> payload,
             target |-> UnwrapOr(claude_code_notify_tx, 0),
             ret |-> PushReturn,
             latest_open |-> IF /\ last_established # 0
                                /\ SessionOpen(last_established)
                             THEN last_established ELSE 0 ])
    /\ UNCHANGED << app_vars, transport_vars, wire, dispatch_vars,
                    last_respond, respond_ok, event_vars, last_refused,
                    host_vars >>

\* ------------------------------------------------------------------------
\* Spec: the whole bridge, from the state start_server leaves behind, with
\* clients that hold the token and an application that answers the tool
\* events it was handed
\* ------------------------------------------------------------------------
Next ==
    \/ ws_upgrade_handler(Some(expected_auth))
    \/ sse_get_handler(Some(expected_auth))
    \/ \E s \in Sessions, m \in BridgeMessages :
           /\ next_dispatch < MaxBridgeCalls \/ s \notin sse_sessions
           /\ sse_message_handler(Some(expected_auth), s, m)
    \/ \E s \in Sessions : set_connected_write(s)
    \/ \E s \in Sessions : set_connected_emit(s)
    \/ \E s \in Sessions : install_notify_tx(s)
    \/ \E s \in Sessions : clear_notify_tx(s)
    \/ \E s \in Sessions, m \in BridgeMessages :
           /\ next_dispatch < MaxBridgeCalls
           /\ ws_read_text(s, m)
    \/ \E s \in Sessions : ws_read_ping(s)
    \/ \E s \in Sessions : ws_pong(s)
    \/ \E s \in Sessions : ws_read_close(s)
    \/ \E s \in Sessions : ws_ping_tick(s)
    \/ \E s \in Sessions : ws_relay(s)
    \/ \E s \in Sessions : ws_peer_gone(s)
    \/ \E s \in Sessions : ws_peer_left(s)
    \/ \E s \in Sessions : sse_stream_next(s)
    \/ \E s \in Sessions : sse_stream_dropped(s)
    \/ \E s \in Sessions : sse_notify_bridge(s)
    \/ \E s \in Sessions : sse_watchdog(s)
    \/ \E r \in Dispatches : handle_message_emit(r)
    \/ \E r \in Dispatches : response_timeout_passes(r)
    \/ \E r \in Dispatches : handle_message_resume(r)
    \/ \E r \in Dispatches : handle_message_elapsed(r)
    \/ \E r \in Dispatches : handle_message_timeout(r)
    \/ \E e \in tool_events, v \in Values :
           /\ e.request_id \in claude_code_pending
           /\ claude_code_respond(e.request_id, v)
    \/ \E n \in 1 .. MaxPushes : claude_code_notify_selection(n)

Spec == Init /\ [][Next]_vars

\* ------------------------------------------------------------------------
\* SpecAuth: the three endpoints under every authorization header, while
\* sessions are being established and calls are being registered
\* ------------------------------------------------------------------------
NextAuth ==
    \/ \E h \in AuthHeaders : ws_upgrade_handler(h)
    \/ \E h \in AuthHeaders : sse_get_handler(h)
    \/ \E h \in AuthHeaders, s \in Sessions, m \in BridgeMessages :
           /\ \/ next_dispatch < MaxBridgeCalls
              \/ ~Authorized(h)
              \/ s \notin sse_sessions
           /\ sse_message_handler(h, s, m)
    \/ \E s \in Sessions : set_connected_write(s)
    \/ \E s \in Sessions : set_connected_emit(s)
    \/ \E s \in Sessions : install_notify_tx(s)
    \/ \E s \in Sessions : sse_stream_next(s)
    \/ \E r \in Dispatches : handle_message_emit(r)

SpecAuth == Init /\ [][NextAuth]_vars

\* ------------------------------------------------------------------------
\* SpecDispatch: the dispatcher and the pending-call table under every
\* message, on sessions that are already established (every session has
\* run its opening steps in the order of the session ids; an SSE client has
\* read the endpoint event that tells it where to POST)
\* ------------------------------------------------------------------------
InitDispatch ==
    /\ claude_code_pending = {}
    /\ claude_code_connected = TRUE
    /\ claude_code_notify_tx = Some(MaxSessions)
    /\ kind \in [ Sessions -> { "ws", "sse" } ]
    /\ sse_sessions = { s \in Sessions : kind[s] = "sse" }
    /\ pc = [ s \in Sessions |->
                IF kind[s] = "ws" THEN "select" ELSE "streaming" ]
    /\ peer = [ s \in Sessions |-> "up" ]
    /\ chan = [ s \in Sessions |-> << >> ]
    /\ notify_chan = [ s \in Sessions |-> << >> ]
    /\ wire = [ s \in Sessions |->
                  IF kind[s] = "ws" THEN << >> ELSE << EndpointEvent(s) >> ]
    /\ dispatch = [ r \in Dispatches |-> NoDispatch ]
    /\ oneshot = [ c \in CallIds |-> "empty" ]
    /\ tool_events = {}
    /\ conn_events = [ s \in 0 .. MaxSessions |->
                         IF s = 0 THEN << >> ELSE << TRUE >> ]
    /\ last_emitted = Some(TRUE)
    /\ next_session = MaxSessions
    /\ next_dispatch = 0
    /\ next_call = 0
    /\ pushes = 0
    /\ last_refused = 0
    /\ last_respond = [ request_id |-> 0, ret |-> "none" ]
    /\ respond_ok = [ c \in CallIds |-> << >> ]
    /\ push_log = << >>
    /\ last_established = MaxSessions
    /\ ServingHost

NextDispatch ==
    \/ \E s \in Sessions, m \in Messages : ws_read_text(s, m)
    \/ \E s \in sse_sessions, m \in Messages :
           sse_message_handler(Some(expected_auth), s, m)
    \/ \E s \in Sessions : sse_stream_dropped(s)
    \/ \E r \in Dispatches : handle_message_emit(r)
    \/ \E r \in Dispatches : response_timeout_passes(r)
    \/ \E r \in Dispatches : handle_message_resume(r)
    \/ \E r \in Dispatches : handle_message_elapsed(r)
    \/ \E r \in Dispatches : handle_message_timeout(r)
    \/ \E c \in CallIds, v \in Values : claude_code_respond(c, v)

SpecDispatch == InitDispatch /\ [][NextDispatch]_vars

\* ------------------------------------------------------------------------
\* SpecSse: Transport B from the first GET on, with clients that hold the
\* token, POST to any session id and drop their streams at any time. The
\* spawned watchdog and the teardown that follows its loop are tasks the
\* runtime keeps scheduling.
\* ------------------------------------------------------------------------
NextSse ==
    \/ sse_get_handler(Some(expected_auth))
    \/ \E s \in Sessions, m \in BridgeMessages :
           /\ next_dispatch < MaxBridgeCalls \/ s \notin sse_sessions
           /\ sse_message_handler(Some(expected_auth), s, m)
    \/ \E s \in Sessions : install_notify_tx(s)
    \/ \E s \in Sessions : set_connected_write(s)
    \/ \E s \in Sessions : set_connected_emit(s)
    \/ \E s \in Sessions : clear_notify_tx(s)
    \/ \E s \in Sessions : sse_stream_next(s)
    \/ \E s \in Sessions : sse_stream_dropped(s)
    \/ \E s \in Sessions : sse_notify_bridge(s)
    \/ \E s \in Sessions : sse_watchdog(s)
    \/ \E r \in Dispatches : handle_message_emit(r)
    \/ \E r \in Dispatches : handle_message_resume(r)
    \/ \E e \in tool_events, v \in Values :
           /\ e.request_id \in claude_code_pending
           /\ claude_code_respond(e.request_id, v)
    \/ \E n \in 1 .. MaxPushes : claude_code_notify_selection(n)

SpecSse ==
    /\ Init
    /\ [][NextSse]_vars
    /\ \A s \in Sessions :
          /\ WF_vars(sse_watchdog(s))
          /\ WF_vars(set_connected_write(s))
          /\ WF_vars(set_connected_emit(s))
          /\ WF_vars(clear_notify_tx(s))

\* ------------------------------------------------------------------------
\* Discovery files (lockfile.rs)
\* ------------------------------------------------------------------------
\* serde_json::from_str(&raw)
from_str(content) ==
    IF content.t = "json" THEN Some(content.val) ELSE None

\* the lock file is removed by cleanup_stale_lockfiles: its content does not
\* parse, or it records a pid for which kill(pid as i32, 0) is not 0
Stale(content) ==
    /\ content # Absent
    /\ \/ from_str(content) = None
       \/ /\ IsSome(Unwrap(from_str(content)).pid)
          /\ kill(as_i32(Unwrap(Unwrap(from_str(content)).pid))) # 0

cleanup_stale_lockfiles(dir) ==
    [ p \in DOMAIN dir |-> IF Stale(dir[p]) THEN Absent ELSE dir[p] ]

NoServers == [ k \in {} |-> FoundEntry(k) ]

\* the document an existing or missing settings file is read as
ReadSettings(content) ==
    IF content = Absent THEN EmptyDocument
    ELSE UnwrapOr(from_str(content), EmptyDocument)

\* write_mcp_settings up to its write: an error, a panic (indexing a value
\* under "mcpServers" that is neither null nor an object), or the document
\* to write
McpWriteOutcome(content, port, auth) ==
    LET doc == ReadSettings(content) IN
    IF doc.t # "object" THEN [ r |-> "Err", doc |-> doc ]
    ELSE LET mcp == UnwrapOr(doc.mcpServers, JsonObject(NoServers)) IN
         IF mcp.t = "array" THEN [ r |-> "Panic", doc |-> doc ]
         ELSE LET servers == IF mcp.t = "null" THEN NoServers
                             ELSE mcp.servers
                  added == [ k \in DOMAIN servers \cup { MCP_SERVER_KEY } |->
                               IF k = MCP_SERVER_KEY
                               THEN ServerEntry(port, auth)
                               ELSE servers[k] ]
              IN [ r |-> "Write",
                   doc |-> Document(doc.other, Some(JsonObject(added))) ]

\* remove_mcp_settings up to its write: nothing to do, or the document to
\* write
McpRemoveOutcome(content) ==
    LET doc == ReadSettings(content) IN
    IF \/ content = Absent
       \/ doc.t # "object"
       \/ doc.mcpServers = None
       \/ Unwrap(doc.mcpServers).t # "object"
    THEN [ r |-> "Ok", doc |-> doc ]
    ELSE LET servers == Unwrap(doc.mcpServers).servers
             left == [ k \in DOMAIN servers \ { MCP_SERVER_KEY } |->
                         servers[k] ]
         IN [ r |-> "Write",
              doc |-> IF DOMAIN left = {} THEN Document(doc.other, None)
                      ELSE Document(doc.other, Some(JsonObject(left))) ]

\* a write of the new document straight into ~/.claude.json
WriteInPlace(content) == [ settings |-> content, tmp |-> settings_tmp ]

\* fs::write(&tmp, &json): the bytes go to the temporary file
WriteTmp(content) == [ settings |-> settings, tmp |-> content ]

\* the file an open descriptor of the temporary file refers to: it stays
\* at the temporary path unless a rename has moved it to ~/.claude.json
\* or remove_file has unlinked it
FileAt(fd) ==
    IF fd = "tmp" THEN settings_tmp
    ELSE IF fd = "settings" THEN settings
    ELSE Partial

\* the bytes of text written from offset 0 over what the file holds: text
\* itself when the file was empty or held text; over another text, text
\* when it is at least as long, otherwise text followed by the other's rest
Overwritten(old, text) ==
    IF old \in { Partial, Absent, text } THEN { text } ELSE { text, Garbage }

\* the files after the write of an open descriptor, given what the write
\* does to the temporary path
WriteFd(fd, written) ==
    IF fd = "tmp" THEN written
    ELSE IF fd = "settings"
    THEN [ settings |-> written.tmp, tmp |-> settings_tmp ]
    ELSE [ settings |-> settings, tmp |-> settings_tmp ]

\* fs::rename(&tmp, &path) succeeds: the call is not refused and the
\* temporary path exists
Renamed(ok) == ok /\ settings_tmp # Absent

\* fs::rename(&tmp, &path), and on its failure fs::remove_file(&tmp)
Rename(ok) ==
    [ settings |-> IF Renamed(ok) THEN settings_tmp ELSE settings,
      tmp |-> Absent ]

\* where the rename, or the remove_file after its failure, leaves a
\* descriptor that another operation holds open
FdAfterRename(fd, ok) ==
    IF fd = "tmp" THEN IF Renamed(ok) THEN "settings" ELSE "unlinked"
    ELSE IF fd = "settings" /\ Renamed(ok) THEN "unlinked"
    ELSE fd

\* the operation returns to its caller; start_server goes on to serve
FinishOp(failed) ==
    /\ fs_log' = Append(fs_log, [ name |-> fs_op.name, port |-> fs_op.port,
                                  failed |-> failed, pre |-> fs_op.pre ])
    /\ fs_op' = Idle
    /\ start_pc' = IF start_pc = "register" THEN "serving" ELSE start_pc

BeginOp(name, port) ==
    [ name |-> name, pc |-> "mcp", port |-> port, new |-> Absent,
      failed |-> FALSE, pre |-> Files(lock_dir, settings, settings_tmp),
      fd |-> "none" ]

\* write_lockfile up to its call of write_mcp_settings: create the
\* directory and write the lock file, or return the error
write_lockfile(port, auth, ok) ==
    /\ host = "running" /\ fs_op = Idle
    /\ IF ok
       THEN /\ lock_dir' = [ lock_dir EXCEPT ![port] =
                   Text("pretty", Descriptor(Some(U64(0, SelfPid)), port,
                                             auth)) ]
            /\ fs_op' = BeginOp("write_lockfile", port)
            /\ UNCHANGED << fs_log, start_pc >>
       ELSE /\ fs_log' = Append(fs_log,
                   [ name |-> "write_lockfile", port |-> port,
                     failed |-> TRUE,
                     pre |-> Files(lock_dir, settings, settings_tmp) ])
            /\ start_pc' = IF start_pc = "register" THEN "serving"
                           ELSE start_pc
            /\ UNCHANGED << lock_dir, fs_op >>
    /\ UNCHANGED << settings, settings_tmp, fs_init, lock_vars, other_op,
                    host, bound_listener,
                    claude_code_port, claude_code_auth >>
    /\ UNCHANGED << app_vars, transport_vars, queue_vars, dispatch_vars,
                    app_side_vars, event_vars, last_refused >>

\* write_mcp_settings, lines 59-80: read, parse, insert the entry
write_mcp_settings_read(ok) ==
    /\ host = "running"
    /\ fs_op.name = "write_lockfile" /\ fs_op.pc = "mcp"
    /\ LET out == McpWriteOutcome(settings, fs_op.port, expected_auth) IN
       IF ~ok \/ out.r = "Err"
       THEN /\ (~ok => settings # Absent)
            /\ FinishOp(TRUE)
       ELSE IF out.r = "Panic"
       THEN /\ fs_op' = [ fs_op EXCEPT !.pc = "panicked" ]
            /\ start_pc' = IF start_pc = "register" THEN "panicked"
                           ELSE start_pc
            /\ UNCHANGED fs_log
       ELSE /\ fs_op' = [ fs_op EXCEPT !.pc = "tmp_open",
                                       !.new = Text("pretty", out.doc) ]
            /\ UNCHANGED << fs_log, start_pc >>
    /\ UNCHANGED << lock_dir, settings, settings_tmp, fs_init, lock_vars, other_op,
                    host,
                    bound_listener, claude_code_port, claude_code_auth >>
    /\ UNCHANGED << app_vars, transport_vars, queue_vars, dispatch_vars,
                    app_side_vars, event_vars, last_refused >>

\* delete_lockfile up to its call of remove_mcp_settings: remove the lock
\* file (a missing file is logged)
delete_lockfile(port) ==
    /\ host = "running" /\ fs_op = Idle
    /\ lock_dir' = [ lock_dir EXCEPT ![port] = Absent ]
    /\ fs_op' = BeginOp("delete_lockfile", port)
    /\ UNCHANGED << settings, settings_tmp, fs_log, fs_init, lock_vars, other_op,
                    host, start_pc,
                    bound_listener, claude_code_port, claude_code_auth >>
    /\ UNCHANGED << app_vars, transport_vars, queue_vars, dispatch_vars,
                    app_side_vars, event_vars, last_refused >>

\* remove_mcp_settings, lines 97-114: read, parse, remove the entry
remove_mcp_settings_read(ok) ==
    /\ host = "running"
    /\ fs_op.name = "delete_lockfile" /\ fs_op.pc = "mcp"
    /\ LET out == McpRemoveOutcome(settings) IN
       IF ~ok
       THEN /\ settings # Absent
            /\ FinishOp(TRUE)
       ELSE IF out.r = "Ok"
       THEN FinishOp(FALSE)
       ELSE /\ fs_op' = [ fs_op EXCEPT !.pc = "tmp_open",
                                       !.new = Text("pretty", out.doc) ]
            /\ UNCHANGED << fs_log, start_pc >>
    /\ UNCHANGED << lock_dir, settings, settings_tmp, fs_init, lock_vars, other_op,
                    host,
                    bound_listener, claude_code_port, claude_code_auth >>
    /\ UNCHANGED << app_vars, transport_vars, queue_vars, dispatch_vars,
                    app_side_vars, event_vars, last_refused >>

\* fs::write(&tmp, &json) creates or truncates the temporary file ...
settings_tmp_open(ok) ==
    /\ host = "running"
    /\ fs_op.pc = "tmp_open"
    /\ IF ok
       THEN /\ settings' = WriteTmp(Partial).settings
            /\ settings_tmp' = WriteTmp(Partial).tmp
            /\ fs_op' = [ fs_op EXCEPT !.pc = "tmp_fill", !.fd = "tmp" ]
            /\ UNCHANGED << fs_log, start_pc >>
       ELSE /\ FinishOp(TRUE)
            /\ UNCHANGED << settings, settings_tmp >>
    /\ UNCHANGED << lock_dir, fs_init, lock_vars, other_op, host, bound_listener,
                    claude_code_port, claude_code_auth >>
    /\ UNCHANGED << app_vars, transport_vars, queue_vars, dispatch_vars,
                    app_side_vars, event_vars, last_refused >>

\* ... and writes the bytes; a failed write leaves what was written so far
settings_tmp_fill(ok) ==
    /\ host = "running"
    /\ fs_op.pc = "tmp_fill"
    /\ IF ok
       THEN /\ \E text \in Overwritten(FileAt(fs_op.fd), fs_op.new) :
                  /\ settings' = WriteFd(fs_op.fd, WriteTmp(text)).settings
                  /\ settings_tmp' = WriteFd(fs_op.fd, WriteTmp(text)).tmp
            /\ fs_op' = [ fs_op EXCEPT !.pc = "rename", !.fd = "none" ]
            /\ UNCHANGED << fs_log, start_pc >>
       ELSE /\ FinishOp(TRUE)
            /\ UNCHANGED << settings, settings_tmp >>
    /\ UNCHANGED << lock_dir, fs_init, lock_vars, other_op, host, bound_listener,
                    claude_code_port, claude_code_auth >>
    /\ UNCHANGED << app_vars, transport_vars, queue_vars, dispatch_vars,
                    app_side_vars, event_vars, last_refused >>

\* fs::rename(&tmp, &path), and on its failure fs::remove_file(&tmp)
settings_rename(ok) ==
    /\ host = "running"
    /\ fs_op.pc = "rename"
    /\ settings' = Rename(ok).settings
    /\ settings_tmp' = Rename(ok).tmp
    /\ other_op' = [ other_op EXCEPT !.fd = FdAfterRename(@, ok) ]
    /\ FinishOp(~Renamed(ok))
    /\ UNCHANGED << lock_dir, fs_init, lock_vars, host, bound_listener,
                    claude_code_port, claude_code_auth >>
    /\ UNCHANGED << app_vars, transport_vars, queue_vars, dispatch_vars,
                    app_side_vars, event_vars, last_refused >>

\* ------------------------------------------------------------------------
\* A second instance of the application on the same home directory: the
\* same write_mcp_settings and remove_mcp_settings, with its own port and
\* token, on the same ~/.claude.json and the same temporary path
\* ------------------------------------------------------------------------
other_auth == "theirs"

\* what the second instance's steps leave alone
other_unchanged ==
    /\ UNCHANGED << lock_dir, fs_log, fs_init, lock_vars, host, start_pc,
                    bound_listener, claude_code_port, claude_code_auth >>
    /\ UNCHANGED << app_vars, transport_vars, queue_vars, dispatch_vars,
                    app_side_vars, event_vars, last_refused >>

\* write_mcp_settings, lines 59-80, in the second instance
other_write_mcp_settings_read(port) ==
    /\ other_op = Idle
    /\ LET out == McpWriteOutcome(settings, port, other_auth) IN
       /\ out.r = "Write"
       /\ other_op' = [ Idle EXCEPT !.name = "write_mcp_settings",
                                    !.pc = "tmp_open", !.port = port,
                                    !.new = Text("pretty", out.doc) ]
    /\ UNCHANGED << settings, settings_tmp, fs_op >>
    /\ other_unchanged

\* remove_mcp_settings, lines 97-114, in the second instance
other_remove_mcp_settings_read ==
    /\ other_op = Idle
    /\ LET out == McpRemoveOutcome(settings) IN
       /\ out.r = "Write"
       /\ other_op' = [ Idle EXCEPT !.name = "remove_mcp_settings",
                                    !.pc = "tmp_open",
                                    !.new = Text("pretty", out.doc) ]
    /\ UNCHANGED << settings, settings_tmp, fs_op >>
    /\ other_unchanged

\* fs::write(&tmp, &json) of the second instance: create or truncate ...
other_tmp_open ==
    /\ other_op.pc = "tmp_open"
    /\ settings' = WriteTmp(Partial).settings
    /\ settings_tmp' = WriteTmp(Partial).tmp
    /\ other_op' = [ other_op EXCEPT !.pc = "tmp_fill", !.fd = "tmp" ]
    /\ UNCHANGED fs_op
    /\ other_unchanged

\* ... and write the bytes
other_tmp_fill ==
    /\ other_op.pc = "tmp_fill"
    /\ \E text \in Overwritten(FileAt(other_op.fd), other_op.new) :
          /\ settings' = WriteFd(other_op.fd, WriteTmp(text)).settings
          /\ settings_tmp' = WriteFd(other_op.fd, WriteTmp(text)).tmp
    /\ other_op' = [ other_op EXCEPT !.pc = "rename", !.fd = "none" ]
    /\ UNCHANGED fs_op
    /\ other_unchanged

\* fs::rename(&tmp, &path) of the second instance, and remove_file on its
\* failure; the function returns
other_rename(ok) ==
    /\ other_op.pc = "rename"
    /\ settings' = Rename(ok).settings
    /\ settings_tmp' = Rename(ok).tmp
    /\ fs_op' = [ fs_op EXCEPT !.fd = FdAfterRename(@, ok) ]
    /\ other_op' = Idle
    /\ other_unchanged

\* ------------------------------------------------------------------------
\* start_server and the end of the process
\* ------------------------------------------------------------------------
\* cleanup_stale_lockfiles(), the first statement of start_server
start_sweep ==
    /\ host = "running" /\ start_pc = "start"
    /\ lock_dir' = cleanup_stale_lockfiles(lock_dir)
    /\ start_pc' = "prefs"
    /\ UNCHANGED << settings, settings_tmp, fs_op, fs_log, fs_init, lock_vars, other_op,
                    host,
                    bound_listener, claude_code_port, claude_code_auth >>
    /\ UNCHANGED << app_vars, transport_vars, queue_vars, dispatch_vars,
                    app_side_vars, event_vars, last_refused >>

\* if !data.preferences.claude_code_ide { return }
start_preferences(claude_code_ide) ==
    /\ host = "running" /\ start_pc = "prefs"
    /\ start_pc' = IF claude_code_ide THEN "bind" ELSE "disabled"
    /\ UNCHANGED << file_vars, lock_vars, host, bound_listener, claude_code_port,
                    claude_code_auth >>
    /\ UNCHANGED << app_vars, transport_vars, queue_vars, dispatch_vars,
                    app_side_vars, event_vars, last_refused >>

\* a start_server that goes on without a listener
AfterBindAlways(listener) == "record"

\* match bound_listener { Some(l) => l, None => { log; return } }
AfterBind(listener) == IF IsSome(listener) THEN "record" ELSE "unbound"

\* the loop over the candidate ports: the first bind that succeeds, if any
start_bind(listener) ==
    /\ host = "running" /\ start_pc = "bind"
    /\ bound_listener' = listener
    /\ start_pc' = AfterBind(listener)
    /\ UNCHANGED << file_vars, lock_vars, host, claude_code_port, claude_code_auth >>
    /\ UNCHANGED << app_vars, transport_vars, queue_vars, dispatch_vars,
                    app_side_vars, event_vars, last_refused >>

\* *state.claude_code_port.write() = Some(port), and the token likewise
start_record ==
    /\ host = "running" /\ start_pc = "record"
    /\ claude_code_port' = bound_listener
    /\ claude_code_auth' = Some(expected_auth)
    /\ start_pc' = "register"
    /\ UNCHANGED << file_vars, lock_vars, host, bound_listener >>
    /\ UNCHANGED << app_vars, transport_vars, queue_vars, dispatch_vars,
                    app_side_vars, event_vars, last_refused >>

\* write_lockfile(port, &auth, workspace_folders) as start_server calls it
start_register(ok) ==
    /\ start_pc = "register"
    /\ write_lockfile(Unwrap(claude_code_port), Unwrap(claude_code_auth), ok)

\* exit_app: app.exit(0)
exit_app ==
    /\ host = "running"
    /\ host' = "exited"
    /\ UNCHANGED << file_vars, lock_vars, start_pc, bound_listener, claude_code_port,
                    claude_code_auth >>
    /\ UNCHANGED << app_vars, transport_vars, queue_vars, dispatch_vars,
                    app_side_vars, event_vars, last_refused >>

\* the process dies wherever it is
crash ==
    /\ host = "running"
    /\ host' = "crashed"
    /\ UNCHANGED << file_vars, lock_vars, start_pc, bound_listener, claude_code_port,
                    claude_code_auth >>
    /\ UNCHANGED << app_vars, transport_vars, queue_vars, dispatch_vars,
                    app_side_vars, event_vars, last_refused >>

\* the router exists once start_server has reached axum::serve
Listening == host = "running" /\ start_pc = "serving"

\* ------------------------------------------------------------------------
\* SpecHost: the application from its launch: start_server over every
\* content of the discovery directory and of the settings document, the
\* connections it accepts once it serves, and the exit of the application
\* ------------------------------------------------------------------------
InitHost ==
    /\ InitBridge
    /\ start_pc = "start"
    /\ bound_listener = None
    /\ claude_code_port = None
    /\ claude_code_auth = None
    /\ lock_dir \in [ Ports -> LockContents ]
    /\ settings \in SettingsContents
    /\ settings_tmp = Absent
    /\ fs_op = Idle
    /\ fs_log = << >>
    /\ fs_init = Files(lock_dir, settings, settings_tmp)
    /\ other_op = Idle
    /\ LocksFree
    /\ host = "running"

NextHost ==
    \/ start_sweep
    \/ \E e \in BOOLEAN : start_preferences(e)
    \/ \E l \in { None } \cup { Some(p) : p \in Ports } : start_bind(l)
    \/ start_record
    \/ \E ok \in BOOLEAN : start_register(ok)
    \/ \E ok \in BOOLEAN : write_mcp_settings_read(ok)
    \/ \E ok \in BOOLEAN : settings_tmp_open(ok)
    \/ \E ok \in BOOLEAN : settings_tmp_fill(ok)
    \/ \E ok \in BOOLEAN : settings_rename(ok)
    \/ Listening /\ ws_upgrade_handler(Some(expected_auth))
    \/ Listening /\ sse_get_handler(Some(expected_auth))
    \/ exit_app

SpecHost == InitHost /\ [][NextHost]_vars

\* ------------------------------------------------------------------------
\* SpecRegistry: write_lockfile and delete_lockfile applied, in any order
\* and with a crash at any step, to every content of the settings document
\* ------------------------------------------------------------------------
InitRegistry ==
    /\ InitBridge
    /\ start_pc = "serving"
    /\ bound_listener = Some(1)
    /\ claude_code_port = Some(1)
    /\ claude_code_auth = Some(expected_auth)
    /\ lock_dir \in [ Ports -> { Absent,
                                 Text("pretty",
                                      Descriptor(Some(U64(0, 100)), 0,
                                                 "theirs")) } ]
    /\ settings \in SettingsContents
    /\ settings_tmp = Absent
    /\ fs_op = Idle
    /\ fs_log = << >>
    /\ fs_init = Files(lock_dir, settings, settings_tmp)
    /\ other_op = Idle
    /\ LocksFree
    /\ host = "running"

NextRegistry ==
    \/ \E p \in Ports, ok \in BOOLEAN :
           /\ Len(fs_log) < MaxOps
           /\ write_lockfile(p, expected_auth, ok)
    \/ \E p \in Ports :
           /\ Len(fs_log) < MaxOps
           /\ delete_lockfile(p)
    \/ \E ok \in BOOLEAN : write_mcp_settings_read(ok)
    \/ \E ok \in BOOLEAN : remove_mcp_settings_read(ok)
    \/ \E ok \in BOOLEAN : settings_tmp_open(ok)
    \/ \E ok \in BOOLEAN : settings_tmp_fill(ok)
    \/ \E ok \in BOOLEAN : settings_rename(ok)
    \/ crash

SpecRegistry == InitRegistry /\ [][NextRegistry]_vars

\* ------------------------------------------------------------------------
\* SpecShared: two instances of the application register and unregister on
\* one home directory whose settings document is complete when they start
\* ------------------------------------------------------------------------
InitShared ==
    /\ InitBridge
    /\ start_pc = "serving"
    /\ bound_listener = Some(1)
    /\ claude_code_port = Some(1)
    /\ claude_code_auth = Some(expected_auth)
    /\ lock_dir = [ p \in Ports |-> Absent ]
    /\ settings \in { Absent, Text("pretty", EmptyDocument),
                       Text("pretty", RegisteredDocument(2, other_auth)) }
    /\ settings_tmp = Absent
    /\ fs_op = Idle
    /\ fs_log = << >>
    /\ fs_init = Files(lock_dir, settings, settings_tmp)
    /\ other_op = Idle
    /\ LocksFree
    /\ host = "running"

NextShared ==
    \/ /\ Len(fs_log) < MaxOps
       /\ write_lockfile(1, expected_auth, TRUE)
    \/ /\ Len(fs_log) < MaxOps
       /\ delete_lockfile(1)
    \/ write_mcp_settings_read(TRUE)
    \/ remove_mcp_settings_read(TRUE)
    \/ settings_tmp_open(TRUE)
    \/ settings_tmp_fill(TRUE)
    \/ \E ok \in BOOLEAN : settings_rename(ok)
    \/ other_write_mcp_settings_read(2)
    \/ other_remove_mcp_settings_read
    \/ other_tmp_open
    \/ other_tmp_fill
    \/ \E ok \in BOOLEAN : other_rename(ok)

SpecShared == InitShared /\ [][NextShared]_vars

\* ------------------------------------------------------------------------
\* SpecPending: established sessions whose clients send requests and may
\* drop an SSE stream or the connection of a POST at any time, and an
\* application that may or may not resolve.  Timers fire and a task that
\* can run is run.
\* ------------------------------------------------------------------------
NextPending ==
    \/ \E s \in Sessions, m \in BridgeMessages : ws_read_text(s, m)
    \/ \E s \in sse_sessions, m \in BridgeMessages :
           sse_message_handler(Some(expected_auth), s, m)
    \/ \E s \in Sessions : sse_stream_dropped(s)
    \/ \E s \in Sessions : sse_watchdog(s)
    \/ \E r \in Dispatches : sse_message_handler_dropped(r)
    \/ \E r \in Dispatches : handle_message_emit(r)
    \/ \E r \in Dispatches : response_timeout_passes(r)
    \/ \E r \in Dispatches : handle_message_resume(r)
    \/ \E r \in Dispatches : handle_message_elapsed(r)
    \/ \E r \in Dispatches : handle_message_timeout(r)
    \/ \E c \in CallIds, v \in Values : claude_code_respond(c, v)

SpecPending ==
    /\ InitDispatch
    /\ [][NextPending]_vars
    /\ \A r \in Dispatches :
          /\ WF_vars(handle_message_emit(r))
          /\ WF_vars(response_timeout_passes(r))
          /\ WF_vars(handle_message_resume(r))
          /\ WF_vars(handle_message_elapsed(r))
          /\ WF_vars(handle_message_timeout(r))

\* ------------------------------------------------------------------------
\* The lock statements of the tasks, interleaved statement by statement
\* ------------------------------------------------------------------------
lock_unchanged ==
    UNCHANGED << app_vars, transport_vars, queue_vars, dispatch_vars,
                 app_side_vars, event_vars, last_refused, start_pc,
                 bound_listener, claude_code_port, claude_code_auth,
                 file_vars, host >>

\* RwLock::write / RwLock::read / Mutex::lock: returns once the lock is
\* available, with a guard
lock_acquire(t) ==
    /\ LockRunning(t)
    /\ LET st == LockStatement(t) IN
       /\ st.op = "acquire"
       /\ LockAvailable(st.lock, st.mode)
       /\ lock_owner' = [ lock_owner EXCEPT
                            ![st.lock] = @ \cup { Guard(t, st.mode) } ]
       /\ \E n \in st.next : lock_pc' = [ lock_pc EXCEPT ![t] = n ]
    /\ lock_unchanged

\* the guard goes out of scope
lock_drop(t) ==
    /\ LockRunning(t)
    /\ LET st == LockStatement(t) IN
       /\ st.op = "drop"
       /\ lock_owner' = [ lock_owner EXCEPT
                            ![st.lock] = { g \in @ : g.task # t } ]
       /\ \E n \in st.next : lock_pc' = [ lock_pc EXCEPT ![t] = n ]
    /\ lock_unchanged

\* the awaited completion, timer, frame or queue item arrives
lock_await(t) ==
    /\ LockRunning(t)
    /\ LET st == LockStatement(t) IN
       /\ st.op = "await"
       /\ \E n \in st.next : lock_pc' = [ lock_pc EXCEPT ![t] = n ]
    /\ UNCHANGED lock_owner
    /\ lock_unchanged

NextLocks ==
    \/ \E t \in LockTasks : lock_acquire(t)
    \/ \E t \in LockTasks : lock_drop(t)
    \/ \E t \in LockTasks : lock_await(t)

SpecLocks == Init /\ [][NextLocks]_vars

\* ------------------------------------------------------------------------
\* Vocabulary of the properties
\* ------------------------------------------------------------------------
\* everything that was placed on the outbound path of session s and is
\* still there or was written to the client
Outbound(s) == wire[s] \o chan[s]

\* a success response of a tools/call: its result holds a content list
IsToolResult(item) ==
    /\ item.t = "response"
    /\ IsSome(item.body.result)
    /\ "content" \in DOMAIN Unwrap(item.body.result)

ToolResultText(item) == Unwrap(item.body.result).content[1].text

\* the dispatches that reached the await of a tools/call
IsCall(r) == dispatch[r].call # 0

\* the responses on the outbound path of session s
Responses(s) == SelectSeq(Outbound(s), LAMBDA item : item.t = "response")

\* the dispatches of session s that produced a response
Replied(s) ==
    { r \in Dispatches : dispatch[r].sess = s /\ dispatch[r].replies # << >> }

\* ------------------------------------------------------------------------
\* C1: with any number of tools/call in flight, on one or several sessions,
\* resolved in any order, every response lies on the outbound path of the
\* session that sent the request, carries that request's id and the result
\* that was supplied for that request's callId: a session's path holds no
\* more responses than its own dispatches produced, each of them is the
\* response of one of its own dispatches, and the response of a resolved
\* call is built from its request's id and the value given for its callId.
\* ------------------------------------------------------------------------
C1_NoCrossWiring ==
    /\ \A s \in Sessions :
          /\ Len(Responses(s)) <= Cardinality(Replied(s))
          /\ \A i \in 1 .. Len(Responses(s)) :
                \E r \in Replied(s) :
                    Responses(s)[i].body = dispatch[r].replies[1]
    /\ \A r \in Dispatches :
          (IsCall(r) /\ dispatch[r].pc = "done"
                     /\ respond_ok[dispatch[r].call] # << >>
                     /\ oneshot[dispatch[r].call] # "empty") =>
              /\ Len(dispatch[r].replies) = 1
              /\ dispatch[r].replies[1].id = ResponseId(dispatch[r].msg)
              /\ dispatch[r].replies[1].error = None
              /\ dispatch[r].replies[1].result =
                     Some(ToolContent(respond_ok[dispatch[r].call][1]))

\* two calls of different sessions were in flight together, and the one
\* issued later was resolved first: its response is on its own session's path
C1_Witness ==
    /\ IsCall(1) /\ dispatch[1].pc = "awaiting"
    /\ IsCall(2) /\ dispatch[2].pc = "done"
    /\ dispatch[1].sess # dispatch[2].sess
    /\ \E i \in 1 .. Len(chan[dispatch[2].sess]) :
          /\ IsToolResult(chan[dispatch[2].sess][i])
          /\ ToolResultText(chan[dispatch[2].sess][i])
                 = to_string(respond_ok[dispatch[2].call][1])

\* ------------------------------------------------------------------------
\* C2: every well-formed request that carries an id gets exactly one
\* response, and that response carries the id of the request.
\* ------------------------------------------------------------------------
C2_OneResponsePerRequest ==
    \A r \in Dispatches :
        (dispatch[r].pc = "done" /\ dispatch[r].msg.wf
                                 /\ IsSome(dispatch[r].msg.id)) =>
            /\ Len(dispatch[r].replies) = 1
            /\ dispatch[r].replies[1].id = Unwrap(dispatch[r].msg.id)

\* ------------------------------------------------------------------------
\* C3: a message without an id (a notification) never gets a response,
\* whatever its method.
\* ------------------------------------------------------------------------
C3_NoResponseToNotification ==
    \A r \in Dispatches :
        (dispatch[r].msg.wf /\ ~IsSome(dispatch[r].msg.id)) =>
            dispatch[r].replies = << >>

\* ------------------------------------------------------------------------
\* C4: a tools/call whose completion never arrives gets exactly one reply,
\* the internal error "Tool response timeout", and only once the timeout
\* has elapsed; a resolve of its callId after that reply returns the error
\* and changes nothing else.
\* ------------------------------------------------------------------------
TimeoutReply(r) ==
    JsonRpcResponse_error(ResponseId(dispatch[r].msg), -32603,
                          "Tool response timeout")

TimedOut(r) ==
    IsCall(r) /\ dispatch[r].pc = "done" /\ dispatch[r].replies = << TimeoutReply(r) >>

C4_Timeout ==
    /\ [](\A r \in Dispatches :
            /\ (IsCall(r) /\ dispatch[r].pc = "done"
                          /\ oneshot[dispatch[r].call] = "empty") => TimedOut(r)
            /\ (IsCall(r) /\ dispatch[r].pc # "done") =>
                   dispatch[r].replies = << >>)
    /\ [][\A r \in Dispatches :
            /\ (~TimedOut(r) /\ TimedOut(r)') => dispatch[r].pc = "elapsed"
            /\ (dispatch[r].pc # "elapsed" /\ dispatch'[r].pc = "elapsed") =>
                   dispatch[r].pc = "overdue"
            /\ TimedOut(r) =>
                  \A v \in Values :
                      claude_code_respond(dispatch[r].call, v) =>
                          /\ last_respond'.ret = "Err"
                          /\ UNCHANGED << app_vars, transport_vars,
                                          queue_vars, dispatch_vars,
                                          respond_ok >>]_vars

\* a call timed out, and a resolve of its callId came after the reply
C4_Witness ==
    \E r \in Dispatches :
        /\ TimedOut(r)
        /\ last_respond = [ request_id |-> dispatch[r].call, ret |-> "Err" ]
        /\ respond_ok[dispatch[r].call] = << >>
        /\ Len(Responses(dispatch[r].sess)) = 1

\* ------------------------------------------------------------------------
\* C5: for every callId at most one resolve removes the entry and delivers
\* a value; a resolve of a callId that is not in the table returns the
\* error, leaves the table as it is and emits no reply.
\* ------------------------------------------------------------------------
C5_ResolveOnce ==
    /\ [](\A c \in CallIds : Len(respond_ok[c]) <= 1)
    /\ [][\A c \in CallIds, v \in Values :
            (c \notin claude_code_pending /\ claude_code_respond(c, v)) =>
                /\ last_respond' = [ request_id |-> c, ret |-> "Err" ]
                /\ UNCHANGED << app_vars, transport_vars, queue_vars,
                                dispatch_vars, respond_ok >>]_vars

\* a callId was resolved, and a second resolve of it got the error
C5_Witness ==
    \E c \in CallIds :
        /\ Len(respond_ok[c]) = 1
        /\ last_respond = [ request_id |-> c, ret |-> "Err" ]

\* ------------------------------------------------------------------------
\* C6: on the socket upgrade, the event-stream GET and the POST, a request
\* whose header is missing or differs from the token is answered 401 and
\* has no other effect: no session, no change of the notification target
\* or of the connection flag, no connection event, no dispatch, no pending
\* call, no tool event.
\* ------------------------------------------------------------------------
C6_AuthRejected ==
    [][\A h \in AuthHeaders :
          (HeaderAuth(h) # expected_auth) =>
              ((\/ ws_upgrade_handler(h)
                \/ sse_get_handler(h)
                \/ \E s \in Sessions, m \in BridgeMessages :
                       sse_message_handler(h, s, m)) =>
                   /\ last_refused' = 401
                   /\ UNCHANGED << app_vars, transport_vars, queue_vars,
                                   dispatch_vars, app_side_vars,
                                   conn_events, host_vars >>)]_vars

\* a request was refused while a session was registered and a call pending
C6_Witness ==
    /\ last_refused = 401
    /\ sse_sessions # {}
    /\ claude_code_pending # {}
    /\ IsSome(claude_code_notify_tx)

\* ------------------------------------------------------------------------
\* C7: while a tools/call of a socket session awaits its completion, the
\* session's other duties go on: a keepalive tick can be served, a frame
\* can be read, and an item waiting in its outbound queue can be written.
\* ------------------------------------------------------------------------
Awaiting(s) ==
    \E r \in Dispatches :
        /\ dispatch[r].sess = s
        /\ dispatch[r].pc \in { "awaiting", "overdue" }

C7_DutiesProgress ==
    \A s \in Sessions :
        (kind[s] = "ws" /\ Awaiting(s)) =>
            /\ ENABLED ws_ping_tick(s)
            /\ peer[s] = "up" => ENABLED ws_read_ping(s)
            /\ chan[s] # << >> => ENABLED ws_relay(s)

\* ------------------------------------------------------------------------
\* C8: within one session, outbound items (replies and pushes) are written
\* in the order in which they were queued on the session's outbound path:
\* whatever is written is the oldest item of the session's queue, and while
\* a push waits on the path no other item is put in front of it.
\* ------------------------------------------------------------------------
C8_Fifo ==
    [][\A s \in Sessions :
          /\ (wire'[s] # wire[s]) =>
                \/ /\ kind[s] = "sse" /\ wire[s] = << >>
                   /\ wire'[s] = << EndpointEvent(s) >>
                \/ /\ chan[s] # << >>
                   /\ wire'[s] = Append(wire[s], Head(chan[s]))
                   /\ chan'[s] = Tail(chan[s])
          /\ (notify_chan[s] # << >> /\ Len(chan'[s]) > Len(chan[s])) =>
                chan'[s] = Append(chan[s], Head(notify_chan[s]))]_vars

\* ------------------------------------------------------------------------
\* C9: whenever the most recently established session is still open, an
\* unsolicited push is placed on that session's outbound path.
\* ------------------------------------------------------------------------
C9_PushToLatest ==
    \A i \in 1 .. Len(push_log) :
        push_log[i].latest_open # 0 =>
            push_log[i].target = push_log[i].latest_open

\* ------------------------------------------------------------------------
\* C10: every session causes exactly one connected=true event when it opens
\* and exactly one connected=false event when it is torn down, in that
\* order, and no connection event is emitted otherwise.
\* ------------------------------------------------------------------------
\* the task of session s has passed set_connected(true)
OpenAnnounced(s) ==
    /\ pc[s] \notin { "none", "open", "emit_open" }
    /\ ~(kind[s] = "sse" /\ pc[s] = "install")

\* the task of session s has passed set_connected(false)
CloseAnnounced(s) == pc[s] \in { "uninstall", "done" }

C10_ConnectionEvents ==
    /\ conn_events[0] = << >>
    /\ \A s \in Sessions :
          conn_events[s] = IF CloseAnnounced(s) THEN << TRUE, FALSE >>
                           ELSE IF OpenAnnounced(s) THEN << TRUE >>
                           ELSE << >>

\* one session is gone and another still open, after a dispatch, a push and
\* a refused POST
C10_Witness ==
    /\ \E s, t \in Sessions :
          /\ pc[s] = "done" /\ conn_events[s] = << TRUE, FALSE >>
          /\ SessionOpen(t) /\ conn_events[t] = << TRUE >>
    /\ next_dispatch > 0
    /\ pushes > 0
    /\ last_refused = 404

\* ------------------------------------------------------------------------
\* C16: text that cannot be decoded as a request (malformed JSON, or JSON
\* without a method) gets no reply, registers no pending call and emits no
\* tool event, and the session stays as it was: its task keeps its position,
\* and a later request with an id on the same session is answered.
\* ------------------------------------------------------------------------
C16_MalformedDropped ==
    /\ [](\A r \in Dispatches :
            (dispatch[r].pc # "unused" /\ ~dispatch[r].msg.wf) =>
                /\ dispatch[r].pc = "done"
                /\ dispatch[r].replies = << >>
                /\ dispatch[r].call = 0)
    /\ [][\A s \in Sessions :
            (\/ ws_read_text(s, Malformed)
             \/ sse_message_handler(Some(expected_auth), s, Malformed)) =>
                UNCHANGED << app_vars, transport_vars, queue_vars,
                             oneshot, tool_events, next_call,
                             conn_events >>]_vars

\* undecodable text arrived on a session, and the initialize request that
\* followed it on the same session was answered
C16_Witness ==
    /\ ~dispatch[1].msg.wf /\ dispatch[1].pc = "done"
    /\ dispatch[2].sess = dispatch[1].sess
    /\ dispatch[2].msg.wf /\ dispatch[2].msg.method = "initialize"
    /\ IsSome(dispatch[2].msg.id)
    /\ Len(dispatch[2].replies) = 1
    /\ dispatch[2].replies[1].id = Unwrap(dispatch[2].msg.id)
    /\ Len(Responses(dispatch[1].sess)) = 1

\* ------------------------------------------------------------------------
\* C17: a tools/call whose params are absent, or whose params have no name,
\* is answered at once with the invalid-params error; no callId is
\* generated for it, no pending call registered and no tool event emitted.
\* ------------------------------------------------------------------------
LacksName(msg) ==
    /\ msg.wf /\ msg.method = "tools/call"
    /\ (msg.params = None \/ Unwrap(msg.params).name = None)

C17_MissingParams ==
    \A r \in Dispatches :
        (dispatch[r].pc # "unused" /\ LacksName(dispatch[r].msg)) =>
            /\ dispatch[r].pc = "done"
            /\ dispatch[r].call = 0
            /\ dispatch[r].replies =
                   << JsonRpcResponse_error(ResponseId(dispatch[r].msg),
                                            -32602, "Missing params") >>
            /\ \A e \in tool_events : e.tool # ""

\* ------------------------------------------------------------------------
\* C20: whenever a tools/call is answered "Tool handler disconnected" or
\* "Tool response timeout", its callId has left the pending-call table by
\* the time the reply is queued, and every later resolve of that callId
\* finds no entry.
\* ------------------------------------------------------------------------
InternalErrorReply(r) ==
    /\ dispatch[r].replies # << >>
    /\ IsSome(dispatch[r].replies[1].error)
    /\ Unwrap(dispatch[r].replies[1].error).code = -32603

C20_RemovedBeforeReply ==
    /\ [](\A r \in Dispatches :
            (IsCall(r) /\ InternalErrorReply(r)) =>
                dispatch[r].call \notin claude_code_pending)
    /\ [][\A r \in Dispatches :
            /\ (IsCall(r) /\ chan'[dispatch[r].sess] # chan[dispatch[r].sess]
                          /\ InternalErrorReply(r)') =>
                   dispatch[r].call \notin claude_code_pending'
            /\ (IsCall(r) /\ InternalErrorReply(r)) =>
                   \A v \in Values :
                       claude_code_respond(dispatch[r].call, v) =>
                           last_respond'.ret = "Err"]_vars

\* the timeout reply of a call is queued on its session, the call has left
\* the table while another call is still pending
C20_Witness ==
    \E r \in Dispatches :
        /\ IsCall(r) /\ InternalErrorReply(r)
        /\ \E i \in 1 .. Len(chan[dispatch[r].sess]) :
              chan[dispatch[r].sess][i] = ResponseItem(dispatch[r].replies[1])
        /\ dispatch[r].call \notin claude_code_pending
        /\ claude_code_pending # {}

\* ------------------------------------------------------------------------
\* Vocabulary of the properties of the discovery files
\* ------------------------------------------------------------------------
\* what a file holds, whatever the formatting of its JSON text
Value(content) == IF content.t = "json" THEN content.val ELSE content

\* the files after the i-th operation of the log returned
After(i) ==
    IF i < Len(fs_log) THEN fs_log[i + 1].pre
    ELSE IF fs_op # Idle THEN fs_op.pre
    ELSE Files(lock_dir, settings, settings_tmp)

\* the document holds an entry under mcpServers.aiterm
HasEntry(content) ==
    /\ content.t = "json"
    /\ content.val.t = "object"
    /\ IsSome(content.val.mcpServers)
    /\ Unwrap(content.val.mcpServers).t = "object"
    /\ MCP_SERVER_KEY \in DOMAIN Unwrap(content.val.mcpServers).servers

\* ------------------------------------------------------------------------
\* C11: the sweep deletes exactly the lock files whose content does not
\* parse and those whose recorded processId is not the id of a running
\* process; every other lock file is left as it was.
\* ------------------------------------------------------------------------
ShouldDelete(content) ==
    /\ content # Absent
    /\ \/ from_str(content) = None
       \/ /\ IsSome(Unwrap(from_str(content)).pid)
          /\ ~IsRunning(Unwrap(Unwrap(from_str(content)).pid))

C11_Sweep ==
    [][start_sweep =>
          \A p \in Ports :
              lock_dir'[p] = IF ShouldDelete(lock_dir[p]) THEN Absent
                             ELSE lock_dir[p]]_vars

\* ------------------------------------------------------------------------
\* C12: from a settings document without this application's entry and
\* without any other registration entry (the file missing, no collection,
\* or an empty collection), register followed at once by unregister leaves
\* a document equal to the initial one (a missing file reads as the empty
\* document).
\* ------------------------------------------------------------------------
NoRegistration(content) ==
    \/ content = Absent
    \/ /\ content.t = "json"
       /\ content.val.t = "object"
       /\ \/ content.val.mcpServers = None
          \/ content.val.mcpServers = Some(JsonObject(NoServers))

C12_RegisterUnregister ==
    (/\ Len(fs_log) = 2 /\ fs_op = Idle
     /\ fs_log[1].name = "write_lockfile" /\ ~fs_log[1].failed
     /\ fs_log[2].name = "delete_lockfile" /\ ~fs_log[2].failed
     /\ fs_log[1].port = fs_log[2].port
     /\ NoRegistration(fs_log[1].pre.settings)) =>
        ReadSettings(settings) = ReadSettings(fs_log[1].pre.settings)

\* ------------------------------------------------------------------------
\* C13: unregister is idempotent: called when nothing was registered (no
\* lock file for the port, no document or no entry of this application) it
\* leaves the discovery directory and the document unchanged; a second call
\* in a row changes nothing; and a collection emptied by the removal of the
\* application's key is removed too.
\* ------------------------------------------------------------------------
NothingRegistered(files, port) ==
    /\ files.lock_dir[port] = Absent
    /\ ~HasEntry(files.settings)

Unregistered(i) ==
    fs_log[i].name = "delete_lockfile" /\ ~fs_log[i].failed

C13_UnregisterIdempotent ==
    \A i \in 1 .. Len(fs_log) :
        /\ (Unregistered(i)
            /\ NothingRegistered(fs_log[i].pre, fs_log[i].port)) =>
               /\ After(i).lock_dir = fs_log[i].pre.lock_dir
               /\ Value(After(i).settings) = Value(fs_log[i].pre.settings)
        /\ (/\ i > 1 /\ Unregistered(i) /\ Unregistered(i - 1)
            /\ fs_log[i].port = fs_log[i - 1].port) =>
               /\ After(i).lock_dir = After(i - 1).lock_dir
               /\ Value(After(i).settings) = Value(After(i - 1).settings)
        /\ (Unregistered(i) /\ HasEntry(fs_log[i].pre.settings)) =>
               /\ ~HasEntry(After(i).settings)
               /\ After(i).settings.val.mcpServers
                      # Some(JsonObject(NoServers))

\* ------------------------------------------------------------------------
\* C14: whatever step of register or unregister the process dies at, the
\* settings document a reader finds is complete: it is the content from
\* before the operation or the new content, never a partly written one.
\* ------------------------------------------------------------------------
C14_AtomicReplace ==
    /\ [](/\ settings # Partial
          /\ fs_op # Idle => settings = fs_op.pre.settings)
    /\ [][settings' # settings =>
              /\ fs_op.pc = "rename"
              /\ fs_op.new.t = "json"
              /\ settings' = fs_op.new]_vars

\* the process died while the temporary file was partly written; the
\* document is the one from before the operation
C14_Witness ==
    /\ host = "crashed"
    /\ fs_op.pc = "tmp_fill"
    /\ settings_tmp = Partial
    /\ settings.t = "json"
    /\ settings = fs_op.pre.settings

\* ------------------------------------------------------------------------
\* C15: after an instance that registered on a port has shut down through
\* the application's exit path, the lock file of that port is gone and the
\* settings document holds no entry of this application.
\* ------------------------------------------------------------------------
Registered ==
    \E i \in 1 .. Len(fs_log) :
        fs_log[i].name = "write_lockfile" /\ ~fs_log[i].failed

C15_CleanShutdown ==
    (host = "exited" /\ start_pc = "serving" /\ Registered) =>
        /\ lock_dir[Unwrap(claude_code_port)] = Absent
        /\ ~HasEntry(settings)

\* ------------------------------------------------------------------------
\* C18: a failure to write the lock file or the registration entry during
\* startup, whatever the discovery directory and the settings document
\* hold, is only logged: start_server does not die of it, and once the
\* registration has returned the bridge serves with its port and token
\* recorded.
\* ------------------------------------------------------------------------
C18_RegistrationSoft ==
    /\ start_pc # "panicked"
    /\ fs_op.pc # "panicked"
    /\ fs_log # << >> =>
          /\ start_pc = "serving"
          /\ claude_code_port = bound_listener
          /\ claude_code_auth = Some(expected_auth)

\* ------------------------------------------------------------------------
\* C19: when no candidate port can be bound, start_server returns and has
\* recorded no port and no token, written no lock file and no registration
\* entry, and no session is ever opened; the application keeps running.
\* ------------------------------------------------------------------------
BindFailed ==
    /\ start_pc \notin { "start", "prefs", "bind", "disabled" }
    /\ bound_listener = None

C19_NoPort ==
    BindFailed =>
        /\ start_pc = "unbound"
        /\ claude_code_port = None /\ claude_code_auth = None
        /\ fs_log = << >> /\ fs_op = Idle
        /\ \A p \in Ports : lock_dir[p] \in { fs_init.lock_dir[p], Absent }
        /\ settings = fs_init.settings
        /\ settings_tmp = fs_init.tmp
        /\ next_session = 0 /\ sse_sessions = {}
        /\ \A s \in Sessions : kind[s] = "none"
        /\ host # "crashed"

\* start_server has returned for want of a port, in a home that holds a
\* settings document and a lock file, and the application is running
C19_Witness ==
    /\ start_pc = "unbound" /\ bound_listener = None
    /\ host = "running"
    /\ settings.t = "json"
    /\ \E p \in Ports : lock_dir[p] # Absent

\* ------------------------------------------------------------------------
\* C21: for every tools/call the Pending Call is in the Pending-Call Table
\* before the tool-invocation event carrying its callId is emitted; hence
\* the first resolve of that callId that comes after the event and before
\* the timeout arm has run finds the entry: it returns success and its
\* value reaches the waiting dispatch.
\* ------------------------------------------------------------------------
\* the tool-invocation event of dispatch r has been emitted and its await
\* has neither been resolved nor timed out
Observed(r) ==
    /\ IsCall(r)
    /\ dispatch[r].pc \in { "awaiting", "overdue" }
    /\ ToolEvent(r) \in tool_events
    /\ respond_ok[dispatch[r].call] = << >>

C21_RegisteredBeforeEvent ==
    /\ [](\A r \in Dispatches :
            Observed(r) => dispatch[r].call \in claude_code_pending)
    /\ [][\A r \in Dispatches :
            /\ (IsCall(r) /\ ToolEvent(r) \notin tool_events
                          /\ ToolEvent(r) \in tool_events') =>
                   /\ dispatch[r].call \in claude_code_pending
                      \/ respond_ok[dispatch[r].call] # << >>
                   /\ \A e \in tool_events :
                          e.request_id # dispatch[r].call
            /\ Observed(r) =>
                  \A v \in Values :
                      claude_code_respond(dispatch[r].call, v) =>
                          /\ last_respond'
                               = [ request_id |-> dispatch[r].call,
                                   ret |-> "Ok" ]
                          /\ oneshot'[dispatch[r].call] = v]_vars

\* the event of a call was emitted while its entry was in the table, and a
\* resolve that came during the await found it
C21_Witness ==
    \E r \in Dispatches :
        /\ IsCall(r)
        /\ dispatch[r].pc = "awaiting"
        /\ ToolEvent(r) \in tool_events
        /\ last_respond = [ request_id |-> dispatch[r].call, ret |-> "Ok" ]
        /\ oneshot[dispatch[r].call] # "empty"
        /\ dispatch[r].call \notin claude_code_pending

\* ------------------------------------------------------------------------
\* C22: whenever a resolve of a callId returned success, the response of
\* that call is the successful one that carries the resolved value, under
\* every interleaving of the resolve with the call's timeout: no call whose
\* resolve returned success is answered with an error.
\* ------------------------------------------------------------------------
C22_SuccessIsDelivered ==
    \A r \in Dispatches :
        (IsCall(r) /\ dispatch[r].pc = "done"
                   /\ respond_ok[dispatch[r].call] # << >>) =>
            dispatch[r].replies =
                << JsonRpcResponse_success(
                       ResponseId(dispatch[r].msg),
                       ToolContent(respond_ok[dispatch[r].call][1])) >>

\* ------------------------------------------------------------------------
\* C23: on a Transport A session a failed write of any kind (the keepalive
\* Ping, the Pong that answers an inbound Ping, a relayed outbound item)
\* ends the session: the step whose write fails leaves the loop for the
\* teardown, and no inbound frame is processed after it.
\* ------------------------------------------------------------------------
\* a step of session s that writes to the socket
WritesFrame(s) == ws_ping_tick(s) \/ ws_relay(s) \/ ws_pong(s)

C23_FailedWriteEndsSession ==
    [][\A s \in Sessions :
          (WritesFrame(s) /\ peer[s] # "up") => pc'[s] = "close"]_vars

\* ------------------------------------------------------------------------
\* C24: on Transport B, once the client's event stream is dropped the
\* watchdog eventually removes the session from the registry and
\* connected=false is emitted; from the removal on a POST naming that
\* session id is answered 404 and dispatches nothing; and the watchdog
\* never removes a session whose stream has not been dropped.
\* ------------------------------------------------------------------------
\* the client of Transport B session s dropped its event stream
StreamDropped(s) == kind[s] = "sse" /\ peer[s] = "gone"

\* session s was in the registry and has been removed from it
Removed(s) ==
    kind[s] = "sse" /\ pc[s] # "none" /\ s \notin sse_sessions

C24_Watchdog ==
    /\ \A s \in Sessions :
          StreamDropped(s) ~>
              (Removed(s) /\ conn_events[s] = << TRUE, FALSE >>)
    /\ [](\A s \in Sessions : Removed(s) => StreamDropped(s))
    /\ [][\A s \in Sessions :
            /\ sse_watchdog(s) => StreamDropped(s)
            /\ Removed(s) =>
                  /\ Removed(s)'
                  /\ \A m \in BridgeMessages :
                        sse_message_handler(Some(expected_auth), s, m) =>
                            /\ last_refused' = 404
                            /\ UNCHANGED << app_vars, transport_vars,
                                            queue_vars, dispatch_vars,
                                            conn_events >>]_vars

\* a stream was dropped, the watchdog removed its session, connected=false
\* was emitted and a POST naming the session was answered 404
C24_Witness ==
    \E s \in Sessions :
        /\ StreamDropped(s)
        /\ Removed(s)
        /\ conn_events[s] = << TRUE, FALSE >>
        /\ last_refused = 404
        /\ next_dispatch > 0

WithReply(s, replies) ==
    IF replies # << >> /\ RxAlive(s)
    THEN Append(chan[s], ResponseItem(replies[1]))
    ELSE chan[s]

C26_PostDispatch ==
    [][/\ \A s \in Sessions, m \in BridgeMessages :
             sse_message_handler(Some(expected_auth), s, m) =>
                 IF s \in sse_sessions
                 THEN /\ next_dispatch' = next_dispatch + 1
                      /\ dispatch'[next_dispatch'].sess = s
                      /\ dispatch'[next_dispatch'].msg = m
                      /\ (m.method = "initialize") =>
                             Len(dispatch'[next_dispatch'].replies) = 1
                      /\ chan' = [ chan EXCEPT ![s] = WithReply(s,
                                     dispatch'[next_dispatch'].replies) ]
                      /\ UNCHANGED << notify_chan, wire, last_refused >>
                 ELSE /\ last_refused' = 404
                      /\ UNCHANGED << app_vars, transport_vars, queue_vars,
                                      dispatch_vars, conn_events >>
       /\ \A r \in Dispatches :
             handle_message_resume(r) =>
                 /\ Len(dispatch'[r].replies) = 1
                 /\ chan' = [ chan EXCEPT ![dispatch[r].sess] =
                                WithReply(dispatch[r].sess,
                                          dispatch'[r].replies) ]
                 /\ UNCHANGED << notify_chan, wire >>]_vars

\* a POST to the first session was answered on that session's stream while
\* the second session was the one installed last, and a POST to an id that
\* is not in the registry was answered 404
C26_Witness ==
    /\ next_session = 2
    /\ claude_code_notify_tx = Some(2)
    /\ dispatch[1].sess = 1
    /\ Len(Responses(1)) = 1
    /\ Responses(2) = << >>
    /\ last_refused = 404
    /\ tool_events # {}

\* ------------------------------------------------------------------------
\* C27: when two instances of the application run register and unregister
\* concurrently, in any interleaving of their read, write-temp and rename
\* steps, the shared settings document is at every moment absent or a
\* complete, parsable document.
\* ------------------------------------------------------------------------
C27_AlwaysComplete ==
    settings = Absent \/ IsSome(from_str(settings))

\* ------------------------------------------------------------------------
\* C28: at startup the sweep is complete before a listener is bound and
\* before this instance's Lock Descriptor is written; consequently, from
\* every content of the discovery directory that earlier instances, their
\* crashes and other programs left behind, once the sweep has run no Lock
\* Descriptor that records a process which was not running at sweep time
\* remains.
\* ------------------------------------------------------------------------
\* a lock file that records the id of a process which does not exist
DeadRecorded(content) ==
    /\ content # Absent
    /\ IsSome(from_str(content))
    /\ IsSome(Unwrap(from_str(content)).pid)
    /\ ~IsRunning(Unwrap(Unwrap(from_str(content)).pid))

\* cleanup_stale_lockfiles() has returned
SweepDone == start_pc # "start"

KnownMethods ==
    { "initialize", "notifications/initialized", "tools/list", "tools/call" }

\* a decodable request with an id and a method the dispatcher does not know
IsUnknownRequest(msg) ==
    msg.wf /\ IsSome(msg.id) /\ msg.method \notin KnownMethods

C29_MethodNotFound ==
    /\ [](\A r \in Dispatches :
            (dispatch[r].pc # "unused" /\ IsUnknownRequest(dispatch[r].msg)) =>
                /\ dispatch[r].pc = "done"
                /\ dispatch[r].call = 0
                /\ Len(dispatch[r].replies) = 1
                /\ dispatch[r].replies[1].id = Unwrap(dispatch[r].msg.id)
                /\ dispatch[r].replies[1].result = None
                /\ Unwrap(dispatch[r].replies[1].error).code = -32601)
    /\ [][\A s \in Sessions, m \in { x \in Messages : IsUnknownRequest(x) } :
            (\/ ws_read_text(s, m)
             \/ sse_message_handler(Some(expected_auth), s, m)) =>
                /\ chan' = [ chan EXCEPT ![s] = WithReply(s,
                               dispatch'[next_dispatch'].replies) ]
                /\ UNCHANGED << app_vars, transport_vars, notify_chan, wire,
                                oneshot, tool_events, next_call,
                                conn_events >>]_vars

\* a request with an unknown method was answered, and a later request on
\* the same session was answered after it
C29_Witness ==
    /\ IsUnknownRequest(dispatch[1].msg)
    /\ dispatch[2].pc = "done"
    /\ dispatch[2].sess = dispatch[1].sess
    /\ dispatch[2].msg.method = "tools/list"
    /\ Len(chan[dispatch[1].sess]) = 2
    /\ chan[dispatch[1].sess][1].body = dispatch[1].replies[1]

\* ------------------------------------------------------------------------
\* C30: every response the bridge emits carries the version tag "2.0" and
\* exactly one of the members result and error, never both and never
\* neither.
\* ------------------------------------------------------------------------
\* the members of the serialized JsonRpcResponse: result and error are
\* skipped when they are None
SerializedMembers(resp) ==
    { "jsonrpc", "id" }
        \cup (IF IsSome(resp.result) THEN { "result" } ELSE {})
        \cup (IF IsSome(resp.error) THEN { "error" } ELSE {})

WellFormedResponse(resp) ==
    /\ resp.jsonrpc = "2.0"
    /\ Cardinality(SerializedMembers(resp) \cap { "result", "error" }) = 1

C30_Envelope ==
    /\ \A s \in Sessions :
          \A i \in 1 .. Len(Responses(s)) :
              WellFormedResponse(Responses(s)[i].body)
    /\ \A r \in Dispatches :
          \A i \in 1 .. Len(dispatch[r].replies) :
              WellFormedResponse(dispatch[r].replies[i])

\* a success response and an error response are both on outbound paths
C30_Witness ==
    \E s, t \in Sessions :
        /\ \E i \in 1 .. Len(Responses(s)) :
              SerializedMembers(Responses(s)[i].body)
                  = { "jsonrpc", "id", "result" }
        /\ \E i \in 1 .. Len(Responses(t)) :
              SerializedMembers(Responses(t)[i].body)
                  = { "jsonrpc", "id", "error" }

\* ------------------------------------------------------------------------
\* Locks and suspension
\* ------------------------------------------------------------------------
ClaimLocks == { "claude_code_pending", "sse_sessions",
                "claude_code_notify_tx" }
\* the task is parked at an .await
Suspended(t) == LockRunning(t) /\ LockStatement(t).op = "await"
\* the task is at a lock statement and the lock is not available
Blocked(t) ==
    /\ LockRunning(t)
    /\ LockStatement(t).op = "acquire"
    /\ ~LockAvailable(LockStatement(t).lock, LockStatement(t).mode)
\* some other task holds the lock and its next statement drops the guard
ReleaseIsNext(t) ==
    \E g \in lock_owner[LockStatement(t).lock] :
        /\ g.task # t
        /\ LockRunning(g.task)
        /\ LockStatement(g.task).op = "drop"
        /\ LockStatement(g.task).lock = LockStatement(t).lock

\* C31: a task parked at an .await holds no guard on the Pending-Call
\* Table, the session registry or the notification target, and a task
\* that waits for one of these locks waits for a holder whose very next
\* statement drops its guard, so that the lock is always acquired in the
\* end and nothing deadlocks
C31_NoLockAcrossAwait ==
    \A t \in LockTasks :
        /\ Suspended(t) => LocksHeld(t) \cap ClaimLocks = {}
        /\ Blocked(t) => ReleaseIsNext(t)
\* the session task is parked on the completion of its call while resolve
\* holds the table and a POST waits to insert
C31_Witness ==
    /\ lock_pc["ws"] = 8
    /\ LocksHeld("respond") = { "claude_code_pending" }
    /\ Blocked("post")
    /\ LockStatement("post").lock = "claude_code_pending"

\* ------------------------------------------------------------------------
\* Pushes without a notification target
\* ------------------------------------------------------------------------
\* the step is a push, issued while no target is set
PushWithoutTarget ==
    /\ pushes' = pushes + 1
    /\ claude_code_notify_tx = None

\* C32: a push issued while no notification target is set returns success
\* and changes nothing: no queue of any session, nothing written to any
\* client, no table entry, no event
C32_PushWithoutTarget ==
    [][PushWithoutTarget =>
          /\ push_log'[Len(push_log')].ret = "Ok"
          /\ push_log'[Len(push_log')].target = 0
          /\ UNCHANGED << chan, notify_chan, wire, app_vars, transport_vars,
                          dispatch_vars, conn_events >>]_vars
\* a push found the target cleared by the teardown of one session while
\* another session is still open, and returned success
C32_Witness ==
    \E i \in 1 .. Len(push_log) :
        /\ push_log[i].target = 0
        /\ push_log[i].ret = "Ok"
        /\ claude_code_notify_tx = None
        /\ \E s \in Sessions : SessionOpen(s)
        /\ \E s \in Sessions : kind[s] # "none" /\ ~SessionOpen(s)

\* ------------------------------------------------------------------------
\* The connection-state flag
\* ------------------------------------------------------------------------
\* the session has announced itself and its teardown has not begun
Connected(s) == SessionOpen(s) /\ OpenAnnounced(s)

\* C33: while at least one session, on either transport, is open, the
\* connection-state flag is true (so the close of one session while
\* another remains open leaves it true)
C33_FlagWhileOpen ==
    (\E s \in Sessions : Connected(s)) => claude_code_connected

\* the task of session s is between the start of its establishment and
\* the installed channel, or between the start and the end of its teardown
InTransition(s) ==
    pc[s] \in { "open", "emit_open", "install", "close", "emit_close",
                "uninstall" }

\* C34: whenever no session is being established or torn down, the
\* connection-state flag equals the value of the connectivity-changed
\* event emitted last (false when none was emitted)
C34_FlagMatchesLastEvent ==
    (\A s \in Sessions : ~InTransition(s)) =>
        claude_code_connected = UnwrapOr(last_emitted, FALSE)

\* ------------------------------------------------------------------------
\* Entries of the Pending-Call Table go away
\* ------------------------------------------------------------------------
\* C35: every entry of the Pending-Call Table is removed in the end, also
\* when the session or the POST it came from is closed first and the
\* application never resolves it
C35_EntriesRemoved ==
    \A c \in CallIds :
        (c \in claude_code_pending) ~> (c \notin claude_code_pending)

\* ------------------------------------------------------------------------
\* Replies of calls whose session is gone
\* ------------------------------------------------------------------------
\* the session's receiver is dropped and its registry entry removed
TornDown(s) ==
    /\ kind[s] # "none"
    /\ ~RxAlive(s)
    /\ s \notin sse_sessions
\* this step produces the reply of the tools/call of dispatch r
ProducesReply(r) ==
    /\ IsCall(r)
    /\ dispatch[r].pc # "done"
    /\ dispatch'[r].pc = "done"

\* C36: when the reply of a tools/call is produced, by a resolve or by the
\* timeout, after the session that issued the call was torn down, the
\* reply is queued for no session and written to no client, the current
\* notification target included, and the step completes the dispatch and
\* leaves every session task, the registry and the server as they were
C36_ReplyOfDeadSession ==
    [][\A r \in Dispatches :
          (ProducesReply(r) /\ TornDown(dispatch[r].sess)) =>
              /\ Len(dispatch'[r].replies) = 1
              /\ UNCHANGED << chan, notify_chan, wire >>
              /\ UNCHANGED << transport_vars, claude_code_notify_tx,
                              claude_code_connected, host, start_pc,
                              bound_listener >>]_vars
\* the call of the first session timed out after that session was removed;
\* the second session, the notification target, is open and got nothing
C36_Witness ==
    /\ TornDown(1)
    /\ dispatch[1].sess = 1
    /\ TimedOut(1)
    /\ Responses(1) = << >>
    /\ claude_code_notify_tx = Some(2)
    /\ RxAlive(2)
    /\ Outbound(2) = IF kind[2] = "sse" THEN << EndpointEvent(2) >>
                     ELSE << >>

\* ------------------------------------------------------------------------
\* What the discovery files advertise
\* ------------------------------------------------------------------------
\* the content is a Lock Descriptor written by this process
OwnDescriptor(content) ==
    /\ content.t = "json"
    /\ content.val.pid = Some(U64(0, SelfPid))
\* the entry under mcpServers.aiterm, once this process has put it there
OwnEntry == Unwrap(settings.val.mcpServers).servers[MCP_SERVER_KEY]
\* the port and the token are those of this bridge: the listener's port,
\* the token the three endpoints compare with, and both as recorded in
\* AppState
Advertises(port, auth) ==
    /\ bound_listener = Some(port)
    /\ claude_code_port = Some(port)
    /\ Authorized(Some(auth))
    /\ claude_code_auth = Some(auth)

OtherServers(doc) ==
    IF IsSome(doc.mcpServers) /\ Unwrap(doc.mcpServers).t = "object"
    THEN [ k \in DOMAIN Unwrap(doc.mcpServers).servers \ { MCP_SERVER_KEY }
             |-> Unwrap(doc.mcpServers).servers[k] ]
    ELSE << >>
\* the part of the file that is not this application's: the other
\* top-level keys and the other entries of a document that is an object,
\* else all there is
NotOurs(content) ==
    IF content = Absent THEN [ other |-> FALSE, servers |-> << >> ]
    ELSE IF content.t = "json" /\ content.val.t = "object"
    THEN [ other |-> content.val.other, servers |-> OtherServers(content.val) ]
    ELSE [ raw |-> content ]

\* C38: whatever the document was before, a register or unregister that
\* returned has left the other top-level keys and the entries of other
\* applications as they were
C38_Frame ==
    \A i \in 1 .. Len(fs_log) :
        NotOurs(After(i).settings) = NotOurs(fs_log[i].pre.settings)

====
